---- MODULE Spec2Model ----
(***************************************************************************)
(* TeasrSocial: the payment ledger of server/routes.ts.                    *)
(*                                                                         *)
(* The model follows the two payment handlers, POST /api/posts/:id/pay and *)
(* POST /api/posts/:id/pay-comment, statement by statement.  Every awaited *)
(* database statement is one atomic step of a request, so requests that    *)
(* are in flight together interleave between their statements exactly as   *)
(* the handlers do on the Node event loop.  Neither handler opens a        *)
(* database transaction: a statement that throws ends the request in the   *)
(* handler's catch block (HTTP 500) and leaves every earlier write in      *)
(* place.                                                                  *)
(*                                                                         *)
(* Money is kept in micro-units (10^-6), the scale of the decimal(18, 6)   *)
(* columns of the schema.  One post is modelled; its settings are chosen   *)
(* in Init and never change.                                               *)
(***************************************************************************)
EXTENDS Integers, Sequences, FiniteSets, TLC

(***************************************************************************)
(* Bounds of the model.                                                    *)
(***************************************************************************)
MaxRequests == 2
MaxSlots == 2
\* view requests
MaxViews == 2
\* length of an uploaded buffer, and the number of values of a byte
MaxLen == 1
ByteMod == 2
\* vote requests, and runs of the viral detection worker
MaxVotes == 2
MaxSweeps == 2

(***************************************************************************)
(* Program constants.                                                      *)
(***************************************************************************)
\* routes.ts:715, routes.ts:953 and x402-payment.ts:26: 0.05 USDC
PLATFORM_FEE_USDC == 50000
\* routes.ts:678: post.maxInvestors || 10
DEFAULT_MAX_INVESTORS == 10

\* the admin backfill: postPayments.slice(10) and "* 0.05", in micro-units
BACKFILL_FIRST_PAYMENTS == 10
BACKFILL_PER_PAYMENT == 50000
\* encryption.ts:30, routes.ts:536: the iv of AES-256-GCM, in bytes
IV_LENGTH == 12
\* encryption.ts:47, routes.ts:537: the authentication tag, in bytes
AUTH_TAG_LENGTH == 16
\* encryption.ts:23: the content key and the master key, in bytes
KEY_LENGTH == 32
\* routes.ts:1718
VIRAL_UPVOTE_THRESHOLD == 10

Requests == 1 .. MaxRequests
\* enough users to fill every investor slot and to send every request
Users == 1 .. (MaxSlots + MaxRequests)

\* amount of the request body, in micro-units: the post's price 5.00, its
\* buyout price 10.00, and 0.010001
Amounts == {5000000, 10000000, 10001}
\* cryptocurrency of the request body; the post accepts the schema default
Cryptocurrencies == {"USDC", "DOGE"}
\* network of the request body ("" is an absent field)
Networks == {"", "solana-devnet"}

VARIABLES
    post,          \* the row of table posts
    payments,      \* table payments
    platformFees,  \* table platform_fees
    investors,     \* table investors
    req,           \* the requests: parameters, position in the handler, locals
    vault,         \* the stored media: the upload and the state of its copy
    mediaReq,      \* the media request: viewer, position, response
    views,         \* the view requests: position, locals, response
    feed,          \* table posts: the vote counters and viral columns
    votes,         \* table votes
    voteReq,       \* the vote requests: parameters, position, locals
    sweep,         \* the runs of the viral detection worker
    trail,         \* per post: the writes of markPostViral and the
                   \* viralNotification events broadcast so far
    cleanup,       \* the cleanup script: its position
    backfill,      \* the backfill request: position, locals, response
    comments,      \* table comments
    commentReq,    \* the comment request: author, position, locals
    envelope       \* one use of the encryption service: inputs, what
                   \* encryptBuffer returned, what decryptBuffer was handed
                   \* and what it returned

\* the variables of the payment ledger, of the media route and of the
\* view route
ledgerVars == <<post, payments, platformFees, investors, req>>
mediaVars == <<vault, mediaReq>>
viewVars == <<views>>
viralVars == <<feed, votes, voteReq, sweep, trail>>
adminVars == <<cleanup, backfill>>
cryptoVars == <<envelope>>
commentVars == <<comments, commentReq>>

\* what the payment handlers leave alone
elsewhere == <<mediaVars, viewVars, viralVars, adminVars, cryptoVars, commentVars>>

vars == <<ledgerVars, mediaVars, viewVars, viralVars, adminVars, cryptoVars, commentVars>>

(***************************************************************************)
(* Pure helpers.                                                           *)
(***************************************************************************)

\* Number.prototype.toFixed(6) of the rational n / d (d > 0), as a count of
\* micro-units: the nearest one, a tie going away from zero.  The handler
\* computes n / d in double precision, which agrees with the exact value
\* except within about 10^-9 micro-units of a tie.
toFixed6(n, d) ==
    IF n >= 0 THEN (2 * n + d) \div (2 * d)
    ELSE -((2 * (-n) + d) \div (2 * d))

\* .orderBy(investors.position): the rows of S as a sequence, by position
\* (rows of equal position by id)
RECURSIVE OrderByPosition(_)
OrderByPosition(S) ==
    IF S = {} THEN <<>>
    ELSE LET first == CHOOSE i \in S : \A j \in S :
                          \/ i.position < j.position
                          \/ (i.position = j.position /\ i.id <= j.id)
         IN  <<first>> \o OrderByPosition(S \ {first})

\* acceptedCryptos.split(',') of the post
AcceptedCryptos == {"USDC"}

\* routes.ts validNetworks outside production, and the default network
validNetworks(cryptocurrency) ==
    IF cryptocurrency = "USDC"
    THEN {"base-sepolia", "ethereum-sepolia", "polygon-mumbai"}
    ELSE {}

selectedNetwork(network) == IF network = "" THEN "base-sepolia" ELSE network

\* const maxInvestorSlots = post.maxInvestors || 10
maxInvestorSlots ==
    IF post.maxInvestors = 0 THEN DEFAULT_MAX_INVESTORS ELSE post.maxInvestors

\* the paymentType a handler works on
PaymentTypeOf(kind) == IF kind = "pay" THEN "content" ELSE "comment"

(***************************************************************************)
(* Storage.                                                                *)
(***************************************************************************)

\* hasUserPaid as it would be if the query forgot the paymentType filter
\* and looked for the content payment only
hasUserPaid_contentOnly(userId, paymentType) ==
    IF post.isFree THEN TRUE
    ELSE \E p \in payments : p.userId = userId /\ p.paymentType = "content"

\* hasUserPaid as it would be if the query forgot the userId filter
hasUserPaid_anyPayer(userId, paymentType) ==
    IF post.isFree THEN TRUE
    ELSE \E p \in payments : p.paymentType = paymentType

\* hasUserPaid as it would be without "if (post?.isFree) return true"
hasUserPaid_recordsOnly(userId, paymentType) ==
    \E p \in payments : p.userId = userId /\ p.paymentType = paymentType

\* DatabaseStorage.hasUserPaid
hasUserPaid(userId, paymentType) ==
    IF post.isFree THEN TRUE
    ELSE \E p \in payments : p.userId = userId /\ p.paymentType = paymentType

\* table payments as it would be without its unique constraint
uniqueUserPost_absent(userId, paymentType) == FALSE

\* unique().on(userId, postId, paymentType) of table payments: TRUE when the
\* insert of a row for (userId, paymentType) is refused
uniqueUserPost(userId, paymentType) ==
    \E p \in payments : p.userId = userId /\ p.paymentType = paymentType

\* table investors as it would be with uniqueInvestorPost alone
uniqueInvestor_userOnly(userId, position) ==
    \E i \in investors : i.userId = userId

\* uniqueInvestorPost and uniquePositionPost of table investors: TRUE when
\* the insert of a row for (userId, position) is refused
uniqueInvestor(userId, position) ==
    \E i \in investors : i.userId = userId \/ i.position = position

\* the row DatabaseStorage.createPayment inserts
PaymentRow(r, paymentType, amount, isBuyout) ==
    [id |-> r, userId |-> req[r].userId, paymentType |-> paymentType,
     amount |-> amount, isBuyout |-> isBuyout]

\* the credit as it would be if the platform fee were not taken off first
EarningsNum_feeKept(amount) == amount * post.investorRevenueShare

\* the per-investor credit of the revenue-share branch, as the rational
\* EarningsNum / EarningsDen
EarningsNum(amount) == (amount - PLATFORM_FEE_USDC) * post.investorRevenueShare

\* the divisor as it would be if the pool were not split among the
\* investors
EarningsDen_undivided(count) == 100

EarningsDen(count) == 100 * count

\* newEarnings = (currentEarnings + earningsPerInvestor).toFixed(6)
newEarnings(currentEarnings, amount, count) ==
    toFixed6(currentEarnings * EarningsDen(count) + EarningsNum(amount),
             EarningsDen(count))

(***************************************************************************)
(* The content-key envelope, services/encryption.ts, and the stored media. *)
(*                                                                         *)
(* A buffer is a sequence of bytes 0 .. ByteMod - 1.  AES-256-GCM is        *)
(* modelled as an ideal authenticated cipher: the ciphertext is the        *)
(* buffer under a keystream that depends on key, iv and position, and the  *)
(* 16 elements of the tag determine key digest, iv digest and ciphertext,  *)
(* so that no other (key, iv, ciphertext) of the model carries the tag.    *)
(***************************************************************************)
Bytes == 0 .. (ByteMod - 1)

\* the buffers of n bytes b
Fill(n, b) == [i \in 1 .. n |-> b]

\* the buffers a creator uploads
Buffers == UNION {[1 .. n -> Bytes] : n \in 0 .. MaxLen}

\* a slice whose negative offsets would count as 0
slice_noNegative(buf, start, end) ==
    LET len == Len(buf)
        clamp(x) == IF x < 0 THEN 0 ELSE (IF x > len THEN len ELSE x)
    IN  IF clamp(start) >= clamp(end) THEN <<>>
        ELSE SubSeq(buf, clamp(start) + 1, clamp(end))

\* Buffer.prototype.slice(start, end): negative offsets count from the end,
\* offsets are clamped to the buffer, an empty range gives an empty buffer
slice(buf, start, end) ==
    LET len == Len(buf)
        clamp(x) == IF x < 0 THEN (IF len + x < 0 THEN 0 ELSE len + x)
                    ELSE (IF x > len THEN len ELSE x)
    IN  IF clamp(start) >= clamp(end) THEN <<>>
        ELSE SubSeq(buf, clamp(start) + 1, clamp(end))

\* a digest of a key or iv
RECURSIVE Weigh(_, _)
Weigh(buf, i) ==
    IF i > Len(buf) THEN 0 ELSE (buf[i] + 1) * i + Weigh(buf, i + 1)

Digest(buf) == Weigh(buf, 1)

Keystream(key, iv, i) == (Digest(key) + Digest(iv) + i) % ByteMod

\* the authentication tag of a ciphertext of at most 39 bytes under
\* (key, iv): three bytes of ciphertext per element from the fourth on,
\* every element keyed, so that a tag with an element replaced (Flip puts
\* 0 or 1 there) is the tag of nothing under a key of 32 bytes
ByteAt(buf, i) == IF i <= Len(buf) THEN buf[i] ELSE 0

\* the tag as it would be if it did not depend on the key
GcmTag_unkeyed(key, iv, encrypted) ==
    [j \in 1 .. AUTH_TAG_LENGTH |->
        IF j = 1 THEN KEY_LENGTH
        ELSE IF j = 2 THEN Digest(iv)
        ELSE IF j = 3 THEN KEY_LENGTH + Len(encrypted)
        ELSE KEY_LENGTH
               + ByteAt(encrypted, 3 * (j - 4) + 1)
               + ByteMod * ByteAt(encrypted, 3 * (j - 4) + 2)
               + ByteMod * ByteMod * ByteAt(encrypted, 3 * (j - 4) + 3)]

GcmTag(key, iv, encrypted) ==
    [j \in 1 .. AUTH_TAG_LENGTH |->
        IF j = 1 THEN Digest(key)
        ELSE IF j = 2 THEN Digest(iv)
        ELSE IF j = 3 THEN Digest(key) + Len(encrypted)
        ELSE Digest(key)
               + ByteAt(encrypted, 3 * (j - 4) + 1)
               + ByteMod * ByteAt(encrypted, 3 * (j - 4) + 2)
               + ByteMod * ByteMod * ByteAt(encrypted, 3 * (j - 4) + 3)]

\* encryptBuffer(buffer, key), iv being the crypto.randomBytes(12) it drew
encryptBuffer(buffer, key, iv) ==
    LET encrypted == [i \in 1 .. Len(buffer) |->
                         (buffer[i] + Keystream(key, iv, i)) % ByteMod]
    IN  [encrypted |-> encrypted, iv |-> iv,
         authTag |-> GcmTag(key, iv, encrypted)]

\* the call throws: no bytes
Thrown == [ok |-> FALSE, bytes |-> <<>>]

\* decryption as it would be if the tag were not verified
decryptBuffer_unauthenticated(encrypted, key, iv, authTag) ==
    [ok |-> TRUE,
     bytes |-> [i \in 1 .. Len(encrypted) |->
                   (encrypted[i] + ByteMod - Keystream(key, iv, i)) % ByteMod]]

\* decryptBuffer(encrypted, key, iv, authTag).  createDecipheriv throws on
\* a key that is not 32 bytes or an empty iv, setAuthTag on a tag that is
\* not 16 bytes, final() on a tag that does not authenticate.
decryptBuffer(encrypted, key, iv, authTag) ==
    IF /\ Len(key) = KEY_LENGTH
       /\ Len(iv) > 0
       /\ Len(authTag) = AUTH_TAG_LENGTH
       /\ authTag = GcmTag(key, iv, encrypted)
    THEN [ok |-> TRUE,
          bytes |-> [i \in 1 .. Len(encrypted) |->
                        (encrypted[i] + ByteMod - Keystream(key, iv, i))
                            % ByteMod]]
    ELSE Thrown

\* buf.toString('base64') and Buffer.from(str, 'base64'): a character
\* stands for one element of the buffer; decoding skips what is not a
\* character of the alphabet
toBase64(buf) == [i \in 1 .. Len(buf) |-> 2 * buf[i] + 1]

IsBase64Char(c) == c % 2 = 1

fromBase64(str) ==
    LET chars == SelectSeq(str, IsBase64Char)
    IN  [i \in 1 .. Len(chars) |-> (chars[i] - 1) \div 2]

\* the master key: MASTER_KEY.padEnd(32, '0').substring(0, 32)
MASTER_KEY_BUFFER == Fill(KEY_LENGTH, 0)

\* encryptContentKey(contentKey), iv being the random iv it drew
encryptContentKey(contentKey, iv) ==
    LET result == encryptBuffer(contentKey, MASTER_KEY_BUFFER, iv)
    IN  [encryptedKey |-> toBase64(result.encrypted),
         iv |-> toBase64(result.iv),
         authTag |-> toBase64(result.authTag)]

\* decryptContentKey(encryptedKeyData)
decryptContentKey(encryptedKeyData) ==
    decryptBuffer(fromBase64(encryptedKeyData.encryptedKey),
                  MASTER_KEY_BUFFER,
                  fromBase64(encryptedKeyData.iv),
                  fromBase64(encryptedKeyData.authTag))

\* What POST /api/posts stores for an uploaded buffer: the file
\* [12 bytes IV][encrypted data][16 bytes auth tag] and the columns
\* encryptedKey, iv, authTag of the post.  keyByte, fileIvByte and keyIvByte
\* stand for the random content key and ivs.  uploaded remembers the
\* buffer; the program does not keep it.
Upload(buffer, keyByte, fileIvByte, keyIvByte) ==
    LET contentKey == Fill(KEY_LENGTH, keyByte)
        encryptionResult ==
            encryptBuffer(buffer, contentKey, Fill(IV_LENGTH, fileIvByte))
        encryptedKeyData ==
            encryptContentKey(contentKey, Fill(IV_LENGTH, keyIvByte))
    IN  [file |-> [exists |-> TRUE,
                   bytes |-> encryptionResult.iv \o encryptionResult.encrypted
                               \o encryptionResult.authTag],
         encryptedKey |-> encryptedKeyData.encryptedKey,
         iv |-> encryptedKeyData.iv,
         authTag |-> encryptedKeyData.authTag,
         uploaded |-> buffer]

\* an element of a buffer replaced by another value
Flip(buf, i) == [buf EXCEPT ![i] = IF @ = 0 THEN 1 ELSE 0]

\* What can have happened to the stored data since the upload: nothing,
\* the file is gone or unreadable, a byte of the file changed (in the iv,
\* the first byte after the iv, the tag), the file was cut short, an
\* element of a column of the envelope changed.
Damages ==
    {"none", "missing", "ivByte", "dataByte", "tagByte", "truncated",
     "keyTag", "keyData"}

Damaged(v, damage) ==
    IF damage = "missing"
    THEN [v EXCEPT !.file = [exists |-> FALSE, bytes |-> <<>>]]
    ELSE IF damage = "ivByte"
    THEN [v EXCEPT !.file.bytes = Flip(@, 1)]
    ELSE IF damage = "dataByte"
    THEN [v EXCEPT !.file.bytes = Flip(@, IV_LENGTH + 1)]
    ELSE IF damage = "tagByte"
    THEN [v EXCEPT !.file.bytes = Flip(@, Len(@))]
    ELSE IF damage = "truncated"
    THEN [v EXCEPT !.file.bytes = SubSeq(@, 1, IV_LENGTH + 1)]
    ELSE IF damage = "keyTag"
    THEN [v EXCEPT !.authTag = toBase64(Flip(fromBase64(@), 1))]
    ELSE IF damage = "keyData"
    THEN [v EXCEPT !.encryptedKey = toBase64(Flip(fromBase64(@), 1))]
    ELSE v

\* "Extract IV and auth tag from file": encryptedBuffer.slice(0, 12),
\* encryptedBuffer.slice(-16) and encryptedBuffer.slice(12, -16)
fileIv(encryptedBuffer) == slice(encryptedBuffer, 0, IV_LENGTH)

fileAuthTag(encryptedBuffer) ==
    slice(encryptedBuffer, -AUTH_TAG_LENGTH, Len(encryptedBuffer))

fileEncryptedData(encryptedBuffer) ==
    slice(encryptedBuffer, IV_LENGTH, -AUTH_TAG_LENGTH)

\* the media of the post as GET /api/posts/:id/media decrypts it:
\* readEncryptedFile, decryptContentKey, the three slices, decryptBuffer
DecryptMedia(v) ==
    IF ~v.file.exists THEN Thrown
    ELSE LET encryptedBuffer == v.file.bytes
             contentKey == decryptContentKey(
                 [encryptedKey |-> v.encryptedKey, iv |-> v.iv,
                  authTag |-> v.authTag])
         IN  IF ~contentKey.ok THEN Thrown
             ELSE decryptBuffer(fileEncryptedData(encryptedBuffer),
                                contentKey.bytes, fileIv(encryptedBuffer),
                                fileAuthTag(encryptedBuffer))

\* what the state keeps of the post's media: the buffer that was uploaded,
\* the content key drawn for it, and what happened to the stored copy
Vaults == [buffer : Buffers, keyByte : Bytes, damage : Damages]

\* the blob and the envelope columns storage holds for one of them
Stored(v) == Damaged(Upload(v.buffer, v.keyByte, 0, 1), v.damage)

\* for each of them, what storage holds and what the media route makes of
\* it, worked out once
RECURSIVE Tabulated(_)
Tabulated(vs) ==
    IF vs = {} THEN <<>>
    ELSE LET v == CHOOSE x \in vs : TRUE
         IN  (v :> [stored |-> Stored(v),
                    decrypted |-> DecryptMedia(Stored(v))])
                @@ Tabulated(vs \ {v})

\* upload by upload
RECURSIVE TabulatedBy(_)
TabulatedBy(uploads) ==
    IF uploads = {} THEN <<>>
    ELSE LET u == CHOOSE x \in uploads : TRUE
         IN  Tabulated({[buffer |-> u[1], keyByte |-> u[2], damage |-> d] :
                           d \in Damages})
                @@ TabulatedBy(uploads \ {u})

Media == TabulatedBy(Buffers \X Bytes)

Disk(v) == Media[v].stored
Decrypted(v) == Media[v].decrypted

\* the stored media while the media route is not looked at
StoredVault == [buffer |-> <<1>>, keyByte |-> 1, damage |-> "none"]

\* the viewer of a media request: nobody (no wallet header), the creator
\* of the post, or a user
Anonymous == -1
CreatorId == 0
Viewers == {Anonymous, CreatorId} \cup Users

IdleMedia ==
    [pc |-> "idle", viewer |-> Anonymous, checked |-> FALSE,
     outcome |-> "none", bytes |-> <<>>]

(***************************************************************************)
(* The view requests, POST /api/posts/:id/view.                            *)
(***************************************************************************)
ViewRequests == 1 .. MaxViews

\* the tables of requests hold the requests received so far, in the order
\* they arrived: the entry of request i is written, or added at its arrival
Put(table, i, entry) ==
    IF i \in DOMAIN table THEN [table EXCEPT ![i] = entry]
                          ELSE Append(table, entry)

IdleView ==
    [pc |-> "idle", seen |-> 0, counted |-> FALSE, viewCount |-> 0,
     outcome |-> "none"]

\* view request v, idle while it has not arrived
ViewOf(v) == IF v \in DOMAIN views THEN views[v] ELSE IdleView

(***************************************************************************)
(* X402PaymentService, services/x402-payment.ts: the simulated settlement. *)
(***************************************************************************)

\* calculateInvestorSplits: perInvestor.toFixed(6) for each of the count
\* investors, perInvestor = (payment - platformFee) * (percent / 100) / count
calculateInvestorSplits(paymentAmount, percent, count) ==
    [k \in 1 .. count |->
        toFixed6((paymentAmount - PLATFORM_FEE_USDC) * percent, 100 * count)]

\* processEvmPayment: the splits of the PaymentResult.  creatorAmount is
\* total - platformFee whatever investorSplits holds.
processEvmPayment(totalAmount, investorSplits) ==
    [totalAmount |-> totalAmount,
     platform |-> PLATFORM_FEE_USDC,
     creator |-> totalAmount - PLATFORM_FEE_USDC,
     investors |-> investorSplits]

\* processPaymentWithSplits: splits are calculated "if (investors &&
\* investors.length > 0 && investorRevenueSharePercent)"; every accepted
\* currency of the post takes the EVM route
processPaymentWithSplits(totalAmount, percent, count) ==
    processEvmPayment(totalAmount,
        IF count > 0 /\ percent # 0
        THEN calculateInvestorSplits(totalAmount, percent, count)
        ELSE <<>>)

\* no call of the settlement service
NoSettlement ==
    [totalAmount |-> 0, platform |-> 0, creator |-> 0, investors |-> <<>>]

(***************************************************************************)
(* Requests.                                                               *)
(***************************************************************************)
IdleRequest ==
    [pc |-> "idle", kind |-> "pay", userId |-> 0, isBuyout |-> FALSE,
     amount |-> 0, cryptocurrency |-> "USDC", network |-> "",
     existingInvestors |-> <<>>, paymentNumber |-> 0, idx |-> 0,
     credited |-> 0, outcome |-> "none", settlement |-> NoSettlement]

InFlight(r) == req[r].pc \notin {"idle", "done"}

\* Users are interchangeable, so a request is sent by a user that has sent
\* one before, by the next user that has done nothing yet, or by the first
\* of the early buyers of the initial ledger (the handlers treat every
\* early buyer alike: each has paid and holds a position).
RequestUsers == {req[r].userId : r \in {q \in Requests : req[q].pc # "idle"}}
EarlyUsers == {i.userId : i \in {j \in investors : j.id < 0}}
FreshUsers == Users \ (RequestUsers \cup EarlyUsers)
NextUsers ==
    RequestUsers
    \cup {u \in EarlyUsers : \A v \in EarlyUsers : u <= v}
    \cup {u \in FreshUsers : \A v \in FreshUsers : u <= v}

\* The request ends with a response; its locals are dropped.  outcome:
\*   "paid"          200 {success: true, alreadyPaid: false}
\*   "alreadyPaid"   200 {success: true, alreadyPaid: true}
\*   "badCurrency"   400 "... is not accepted for this content"
\*   "badNetwork"    400 "Invalid network ..."
\*   "slotsFull"     400 "All ... investor spots are filled."
\*   "dupPayment"    500, createPayment of the request's own payment refused
\*   "dupInvestor"   500, db.insert(investors) refused
\*   "dupGrant"      500, createPayment of the comment access refused
\*   "ioError"       500, a database statement threw
Respond(r, outcome) ==
    req' = [req EXCEPT ![r].pc = "done", ![r].outcome = outcome,
                       ![r].existingInvestors = <<>>,
                       ![r].paymentNumber = 0, ![r].idx = 0]

Http500 == {"dupPayment", "dupInvestor", "dupGrant", "ioError"}

Goto(r, pc) == req' = [req EXCEPT ![r].pc = pc]

\* The ledger after the first k buyers of a post bought a slot one after
\* the other: buyer u paid the buyout price (payment, platform fee, the
\* comment access of a post with locked comments) and holds position u.
\* No earnings were credited yet.  Their rows carry the ids -1 .. -k; the
\* rows a request r writes carry the id r.
EarlyPayments(p, k) ==
    {[id |-> -u, userId |-> u, paymentType |-> "content",
      amount |-> p.buyoutPrice, isBuyout |-> TRUE] : u \in 1 .. k}
    \cup
    {[id |-> -u, userId |-> u, paymentType |-> "comment",
      amount |-> 0, isBuyout |-> FALSE] :
        u \in IF p.commentsLocked THEN 1 .. k ELSE {}}

EarlyFees(k) ==
    {[paymentId |-> -u, paymentType |-> "content",
      amount |-> PLATFORM_FEE_USDC] : u \in 1 .. k}

EarlyInvestors(p, k) ==
    {[id |-> -u, userId |-> u, position |-> u,
      investmentAmount |-> p.buyoutPrice, totalEarnings |-> 0] : u \in 1 .. k}

InitLedger ==
    /\ post \in [isFree : BOOLEAN, commentsLocked : BOOLEAN,
                 maxInvestors : 1 .. MaxSlots,
                 investorRevenueShare : {0, 20},
                 price : {5000000}, buyoutPrice : {10000000},
                 commentFee : {1000000},
                 viewCount : {0}]
    /\ \E k \in 0 .. (IF post.isFree THEN 0 ELSE post.maxInvestors) :
          /\ payments = EarlyPayments(post, k)
          /\ platformFees = EarlyFees(k)
          /\ investors = EarlyInvestors(post, k)
    /\ req = [r \in Requests |-> IdleRequest]

\* the media route and the view route at rest
MediaAtRest == vault = StoredVault /\ mediaReq = IdleMedia
ViewsAtRest == views = <<>>

(***************************************************************************)
(* Votes and the viral detection worker: the posts of the feed, numbered   *)
(* in the order getAllPostsWithCreators returns them, and the users who    *)
(* vote.  The counters of a post include the votes of the users who send   *)
(* no request here.                                                        *)
(***************************************************************************)
PostIds == {1, 2}
Voters == {1, 2}
\* voteType of the request body
VoteTypes == {"up", "down", "sideways"}

VoteRequests == 1 .. MaxVotes
SweepRuns == 1 .. MaxSweeps

\* a row of posts: a new post, with the counters at the given values
FeedRow(upvoteCount) ==
    [upvoteCount |-> upvoteCount, downvoteCount |-> 0,
     isViral |-> FALSE, viralDetectedAt |-> 0]

IdleVote ==
    [pc |-> "idle", userId |-> 0, postId |-> 0, voteType |-> "none",
     existing |-> "none", outcome |-> "none"]

IdleSweep == [pc |-> "idle", posts |-> <<>>, next |-> 0, outcome |-> "none"]

\* vote request v and run s of the worker, idle before they start
VoteOf(v) == IF v \in DOMAIN voteReq THEN voteReq[v] ELSE IdleVote
SweepOf(s) == IF s \in DOMAIN sweep THEN sweep[s] ELSE IdleSweep

NoTrail == [p \in PostIds |-> [marked |-> 0, notified |-> 0]]

\* no vote request sent, the worker has not run
VotesAtRest ==
    /\ votes = {}
    /\ voteReq = <<>>
    /\ sweep = <<>>
    /\ trail = NoTrail

ViralAtRest ==
    /\ feed = [p \in PostIds |-> FeedRow(0)]
    /\ VotesAtRest

\* the cleanup script is not run
\* the backfill route before a request
IdleBackfill == [pc |-> "idle"]

AdminAtRest == cleanup = "idle" /\ backfill = IdleBackfill

\* the encryption service while it is not looked at on its own
IdleEnvelope == [pc |-> "idle"]

EnvelopeAtRest == envelope = IdleEnvelope

\* the comment route while it is not looked at
IdleComment == [pc |-> "idle"]

CommentsAtRest == comments = {} /\ commentReq = IdleComment

Init ==
    InitLedger /\ MediaAtRest /\ ViewsAtRest /\ ViralAtRest /\ AdminAtRest /\ EnvelopeAtRest /\ CommentsAtRest

(***************************************************************************)
(* The request bodies.  A buyout is sent with the buyout price, a regular   *)
(* payment with any other amount (the handler takes the amount from the    *)
(* body and checks it against nothing).  A body whose cryptocurrency or     *)
(* network is refused is sent with the post's price: the handler answers    *)
(* it before it reads the amount.                                           *)
(***************************************************************************)
PayBodies ==
    {b \in [isBuyout : BOOLEAN, amount : Amounts,
            cryptocurrency : Cryptocurrencies, network : Networks] :
        /\ b.isBuyout <=> b.amount = 10000000
        /\ (b.cryptocurrency # "USDC" \/ b.network # "")
              => b.amount \in {5000000, 10000000}}

\* pay-comment reads neither amount nor isBuyout
CommentBodies ==
    {[isBuyout |-> FALSE, amount |-> 0, cryptocurrency |-> "USDC",
      network |-> ""]}

Bodies(kind) == IF kind = "pay" THEN PayBodies ELSE CommentBodies

\* the bodies the payment dialog of the client sends: an accepted
\* currency, its network, and the post's buyout price or price
ClientBodies(kind) ==
    {b \in Bodies(kind) :
        /\ b.cryptocurrency \in AcceptedCryptos
        /\ selectedNetwork(b.network) \in validNetworks(b.cryptocurrency)
        /\ kind = "pay" => b.amount \in {5000000, 10000000}}

\* requests are numbered in the order they arrive
MayStart(r) ==
    /\ req[r].pc = "idle"
    /\ IF r = 1 THEN TRUE ELSE req[r - 1].pc # "idle"

\* DatabaseStorage.incrementViewCount: one UPDATE ... SET view_count =
\* view_count + 1
incrementViewCount == post' = [post EXCEPT !.viewCount = @ + 1]

(***************************************************************************)
(* POST /api/posts/:id/pay, routes.ts 630-913, and                         *)
(* POST /api/posts/:id/pay-comment, routes.ts 916-981.                     *)
(*                                                                         *)
(* A step is one awaited statement that reads or writes rows another       *)
(* request can write or read.  Two statements no other request can         *)
(* observe run inside the step before them: the platform-fee insert (no    *)
(* handler reads platform_fees) and the reads and notifications that       *)
(* precede the response (their results go to the broadcast only).          *)
(***************************************************************************)

\* pay: getCurrentUser, getPost, incrementViewCount, the accepted-currency
\* check.  pay-comment: getCurrentUser, getPost, the commentsLocked check.
\* (An error of pay's increment is logged by its .catch and the handler
\* goes on; the increment is taken here as it runs when the database
\* answers.)
Receive(r, userId, kind, body) ==
    /\ LET arrived == [req[r] EXCEPT
                          !.kind = kind, !.userId = userId,
                          !.isBuyout = body.isBuyout, !.amount = body.amount,
                          !.cryptocurrency = body.cryptocurrency,
                          !.network = body.network]
       IN  IF kind = "pay"
           THEN /\ incrementViewCount
                /\ IF body.cryptocurrency \notin AcceptedCryptos
                   THEN req' = [req EXCEPT ![r] =
                                  [arrived EXCEPT !.pc = "done",
                                                  !.outcome = "badCurrency"]]
                   ELSE req' = [req EXCEPT ![r] =
                                  [arrived EXCEPT !.pc = "check"]]
           ELSE /\ UNCHANGED post
                /\ IF ~post.commentsLocked
                   THEN req' = [req EXCEPT ![r] =
                                  [arrived EXCEPT !.pc = "done",
                                                  !.outcome = "alreadyPaid"]]
                   ELSE req' = [req EXCEPT ![r] =
                                  [arrived EXCEPT !.pc = "check"]]
    /\ UNCHANGED <<payments, platformFees, investors, elsewhere>>

\* a request arrives, with any body
Start(r) ==
    /\ MayStart(r)
    /\ \E userId \in NextUsers, kind \in {"pay", "payComment"} :
          \E body \in Bodies(kind) : Receive(r, userId, kind, body)

\* a request of the client arrives
StartClient(r) ==
    /\ MayStart(r)
    /\ \E userId \in NextUsers, kind \in {"pay", "payComment"} :
          \E body \in ClientBodies(kind) : Receive(r, userId, kind, body)

\* storage.hasUserPaid, the already-paid answer and, in pay, the network
\* validation that follows it
CheckPaid(r) ==
    /\ req[r].pc = "check"
    /\ IF hasUserPaid(req[r].userId, PaymentTypeOf(req[r].kind))
       THEN Respond(r, "alreadyPaid")
       ELSE IF req[r].kind = "payComment"
       THEN Goto(r, "insPay")
       ELSE IF /\ validNetworks(req[r].cryptocurrency) # {}
               /\ selectedNetwork(req[r].network)
                     \notin validNetworks(req[r].cryptocurrency)
       THEN Respond(r, "badNetwork")
       ELSE Goto(r, "count")
    /\ UNCHANGED <<post, payments, platformFees, investors, elsewhere>>

\* the limit check as it would be with > for >=
spotsFilled_offByOne(isBuyout, investorCount) ==
    isBuyout /\ investorCount > maxInvestorSlots

\* if (isBuyout && investorCount >= maxInvestorSlots)
spotsFilled(isBuyout, investorCount) ==
    isBuyout /\ investorCount >= maxInvestorSlots

\* select count() from investors, and the investor limit check
CountInvestors(r) ==
    /\ req[r].pc = "count"
    /\ IF spotsFilled(req[r].isBuyout, Cardinality(investors))
       THEN Respond(r, "slotsFull")
       ELSE Goto(r, "insPay")
    /\ UNCHANGED <<post, payments, platformFees, investors, elsewhere>>

\* db.insert(platformFees) for the payment of request r: the row is
\* written, or the statement throws and the catch block answers 500
InsertFee(r, next) ==
    \/ /\ platformFees' = platformFees \cup
             {[paymentId |-> r, paymentType |-> PaymentTypeOf(req[r].kind),
               amount |-> PLATFORM_FEE_USDC]}
       /\ IF next = "done" THEN Respond(r, "paid") ELSE Goto(r, next)
    \/ /\ UNCHANGED platformFees
       /\ Respond(r, "ioError")

\* storage.createPayment of the handler's own payment, refused by the
\* unique constraint when a row of the tuple exists (the error reaches the
\* catch block: 500), and the platform-fee insert that follows it.
\* pay-comment then notifies the creator (errors swallowed) and responds.
InsertPayment(r) ==
    /\ req[r].pc = "insPay"
    /\ IF uniqueUserPost(req[r].userId, PaymentTypeOf(req[r].kind))
       THEN /\ Respond(r, "dupPayment")
            /\ UNCHANGED <<payments, platformFees>>
       ELSE IF req[r].kind = "pay"
       THEN /\ payments' = payments \cup
                   {PaymentRow(r, "content", req[r].amount, req[r].isBuyout)}
            /\ IF ~post.isFree
               THEN InsertFee(r, "readInv")
               ELSE Goto(r, "readInv") /\ UNCHANGED platformFees
       ELSE /\ payments' = payments \cup
                   {PaymentRow(r, "comment", post.commentFee, FALSE)}
            /\ InsertFee(r, "done")
    /\ UNCHANGED <<post, investors, elsewhere>>

\* select creator; select existingInvestors ... orderBy(position)
ReadInvestors(r) ==
    /\ req[r].pc = "readInv"
    /\ req' = [req EXCEPT ![r].pc = "countPay",
                          ![r].existingInvestors = OrderByPosition(investors)]
    /\ UNCHANGED <<post, payments, platformFees, investors, elsewhere>>

\* the branch pay takes once paymentNumber is known
Branch(r, paymentNumber) ==
    IF req[r].isBuyout /\ Len(req[r].existingInvestors) < maxInvestorSlots
    THEN "insInv"
    ELSE IF /\ paymentNumber > maxInvestorSlots
            /\ Len(req[r].existingInvestors) = maxInvestorSlots
            /\ post.investorRevenueShare > 0
    THEN "credit"
    ELSE "finish"

\* select count() from payments where paymentType = 'content'
CountPayments(r) ==
    /\ req[r].pc = "countPay"
    /\ LET totalPayments ==
             Cardinality({p \in payments : p.paymentType = "content"})
       IN  req' = [req EXCEPT ![r].pc = Branch(r, totalPayments),
                              ![r].paymentNumber = totalPayments,
                              ![r].idx = 1]
    /\ UNCHANGED <<post, payments, platformFees, investors, elsewhere>>

\* db.insert(investors) with position = existingInvestors.length + 1,
\* refused by a unique constraint of table investors (500)
InsertInvestor(r) ==
    /\ req[r].pc = "insInv"
    /\ LET position == Len(req[r].existingInvestors) + 1
       IN  IF uniqueInvestor(req[r].userId, position)
           THEN /\ Respond(r, "dupInvestor")
                /\ UNCHANGED investors
           ELSE /\ investors' = investors \cup
                      {[id |-> r, userId |-> req[r].userId,
                        position |-> position,
                        investmentAmount |->
                            IF post.buyoutPrice # 0 THEN post.buyoutPrice
                            ELSE post.price,
                        totalEarnings |-> 0]}
                /\ Goto(r, "finish")
    /\ UNCHANGED <<post, payments, platformFees, elsewhere>>

\* one pass of the loop over existingInvestors: db.update(investors)
\* .set({totalEarnings: newEarnings}).where(id = investor.id)
Credit(r) ==
    /\ req[r].pc = "credit"
    /\ LET investor == req[r].existingInvestors[req[r].idx]
           earnings == newEarnings(investor.totalEarnings, req[r].amount,
                                   Len(req[r].existingInvestors))
       IN  investors' =
               {IF i.id = investor.id
                THEN [i EXCEPT !.totalEarnings = earnings] ELSE i :
                    i \in investors}
    /\ req' = [req EXCEPT
                  ![r].idx = @ + 1,
                  ![r].credited = @ + 1,
                  ![r].pc = IF req[r].idx = Len(req[r].existingInvestors)
                            THEN "finish" ELSE "credit"]
    /\ UNCHANGED <<post, payments, platformFees, elsewhere>>

\* The call of x402PaymentService.processPaymentWithSplits the branch of
\* the request made: with the investors of existingInvestors in the
\* revenue-share branch (every user has a wallet address), without investors
\* in the regular branch "if (creator && !post.isFree)", none in the buyout
\* branch.
Settlement(r) ==
    LET branch == Branch(r, req[r].paymentNumber)
    IN  IF branch = "credit"
        THEN processPaymentWithSplits(req[r].amount,
                 post.investorRevenueShare, Len(req[r].existingInvestors))
        ELSE IF branch = "finish" /\ ~post.isFree
        THEN processPaymentWithSplits(req[r].amount, 0, 0)
        ELSE NoSettlement

\* the response of pay, after the settlement the request simulated
RespondSettled(r, outcome) ==
    req' = [req EXCEPT ![r].pc = "done", ![r].outcome = outcome,
                       ![r].settlement = Settlement(r),
                       ![r].existingInvestors = <<>>,
                       ![r].paymentNumber = 0, ![r].idx = 0]

\* the rest of pay: the reads after the branch (investor users,
\* getInvestorCount, updatedInvestors), the simulated settlement, the
\* broadcasts, the creator's notification and welcome message (errors
\* swallowed), then "Also grant comment access if comments are locked":
\* storage.createPayment of a 'comment' row of amount 0, and the response
Finish(r) ==
    /\ req[r].pc = "finish"
    /\ IF post.commentsLocked
       THEN IF uniqueUserPost(req[r].userId, "comment")
            THEN /\ RespondSettled(r, "dupGrant")
                 /\ UNCHANGED payments
            ELSE /\ payments' = payments \cup
                        {PaymentRow(r, "comment", 0, FALSE)}
                 /\ RespondSettled(r, "paid")
       ELSE /\ RespondSettled(r, "paid")
            /\ UNCHANGED payments
    /\ UNCHANGED <<post, platformFees, investors, elsewhere>>

\* an awaited database statement of the handler throws (connection lost,
\* timeout): the catch block answers 500 and nothing is undone
DbSteps ==
    {"check", "count", "insPay", "readInv", "countPay", "insInv", "credit",
     "finish"}

Fail(r) ==
    /\ req[r].pc \in DbSteps
    /\ Respond(r, "ioError")
    /\ UNCHANGED <<post, payments, platformFees, investors, elsewhere>>

Step(r) ==
    \/ CheckPaid(r)
    \/ CountInvestors(r)
    \/ InsertPayment(r)
    \/ ReadInvestors(r)
    \/ CountPayments(r)
    \/ InsertInvestor(r)
    \/ Credit(r)
    \/ Finish(r)
    \/ Fail(r)

\* requests of the client arrive at any time and run concurrently
Next == \E r \in Requests : StartClient(r) \/ Step(r)

Spec == Init /\ [][Next]_vars

\* requests with any body arrive one after the other: a request is sent
\* only after every earlier one was answered
StartSeq(r) ==
    /\ \A q \in Requests : ~InFlight(q)
    /\ Start(r)

NextSeq == \E r \in Requests : StartSeq(r) \/ Step(r)

SpecSeq == Init /\ [][NextSeq]_vars

(***************************************************************************)
(* GET /api/posts/:id/media, routes.ts 512-596.                            *)
(***************************************************************************)
MediaRespond(outcome, bytes) ==
    mediaReq' = [mediaReq EXCEPT !.pc = "done", !.outcome = outcome,
                                 !.bytes = bytes]

\* getCurrentUser, getPost, "if (post.isFree)", and for a post that is not
\* free the statements up to the first await: nobody is neither creator nor
\* payer and is redirected to the blurred thumbnail, the creator goes on to
\* the media, a user to storage.hasUserPaid
\* the branch for the creator only, as it would be without
\* "if (post.isFree)"
servedUnchecked_creatorOnly(viewer) == viewer = CreatorId

\* the branch for free posts only, as it would be without isCreator
servedUnchecked_freeOnly(viewer) == post.isFree

\* the viewers the route serves without a look at the payments: anyone on
\* a free post, the creator
servedUnchecked(viewer) == post.isFree \/ viewer = CreatorId

MediaReceive(viewer) ==
    /\ mediaReq.pc = "idle"
    /\ LET arrived == [mediaReq EXCEPT !.viewer = viewer]
       IN  IF servedUnchecked(viewer)
           THEN mediaReq' = [arrived EXCEPT !.pc = "serve"]
           ELSE IF viewer = Anonymous
           THEN mediaReq' = [arrived EXCEPT !.pc = "done",
                                            !.outcome = "thumbnail"]
           ELSE mediaReq' = [arrived EXCEPT !.pc = "checkPaid"]
    /\ UNCHANGED <<ledgerVars, vault, viewVars, viralVars, adminVars, cryptoVars, commentVars>>

\* hasPaid = await storage.hasUserPaid(user.id, req.params.id, 'content');
\* "if (!isCreator && !hasPaid)" redirect to the blurred thumbnail
MediaCheckPaid ==
    /\ mediaReq.pc = "checkPaid"
    /\ IF hasUserPaid(mediaReq.viewer, "content")
       THEN mediaReq' = [mediaReq EXCEPT !.pc = "serve", !.checked = TRUE]
       ELSE mediaReq' = [mediaReq EXCEPT !.pc = "done", !.checked = TRUE,
                                         !.outcome = "thumbnail"]
    /\ UNCHANGED <<ledgerVars, vault, viewVars, viralVars, adminVars, cryptoVars, commentVars>>

\* storage.hasUserPaid throws: the outer catch answers 500
MediaFail ==
    /\ mediaReq.pc = "checkPaid"
    /\ MediaRespond("error", <<>>)
    /\ UNCHANGED <<ledgerVars, vault, viewVars, viralVars, adminVars, cryptoVars, commentVars>>

\* the try block of either branch: res.send(decryptedBuffer), or on any
\* throw res.redirect(post.blurredThumbnailPath)
MediaServe ==
    /\ mediaReq.pc = "serve"
    /\ LET decryptedBuffer == Decrypted(vault)
       IN  IF decryptedBuffer.ok
           THEN MediaRespond("media", decryptedBuffer.bytes)
           ELSE MediaRespond("thumbnail", <<>>)
    /\ UNCHANGED <<ledgerVars, vault, viewVars, viralVars, adminVars, cryptoVars, commentVars>>

\* the media of the post was uploaded as any buffer with any random key,
\* and anything may have happened to what was stored
AnyVault ==
    /\ vault \in Vaults
    /\ mediaReq = IdleMedia

\* a post with one investor slot and open comments, for the routes that do
\* not look at either
InitLedgerPlain ==
    /\ InitLedger
    /\ ~post.commentsLocked
    /\ post.maxInvestors = 1

InitMedia ==
    InitLedgerPlain /\ AnyVault /\ ViewsAtRest /\ ViralAtRest /\ AdminAtRest /\ EnvelopeAtRest /\ CommentsAtRest

\* the first request of the payment handlers
FirstRequest == {r \in Requests : r = 1}

\* one media request, while a payment request of the client runs
NextMedia ==
    \/ \E r \in FirstRequest : StartClient(r) \/ Step(r)
    \/ \E viewer \in Viewers : MediaReceive(viewer)
    \/ MediaCheckPaid
    \/ MediaFail
    \/ MediaServe

SpecMedia == InitMedia /\ [][NextMedia]_vars

(***************************************************************************)
(* POST /api/posts/:id/view, routes.ts 468-509.                            *)
(***************************************************************************)
\* view requests are numbered in the order they arrive
ViewMayStart(v) ==
    /\ ViewOf(v).pc = "idle"
    /\ IF v = 1 THEN TRUE ELSE ViewOf(v - 1).pc # "idle"

\* getCurrentUser, const post = await storage.getPost(req.params.id)
ViewReceive(v) ==
    /\ ViewMayStart(v)
    /\ views' = Put(views, v, [IdleView EXCEPT !.pc = "increment",
                                                !.seen = post.viewCount])
    /\ UNCHANGED <<post, payments, platformFees, investors, req, mediaVars, viralVars, adminVars, cryptoVars, commentVars>>

\* the increment as it would be if the handler wrote back the count it
\* read plus one
ViewIncrement_readModifyWrite(v) ==
    /\ ViewOf(v).pc = "increment"
    /\ post' = [post EXCEPT !.viewCount = ViewOf(v).seen + 1]
    /\ views' = [views EXCEPT ![v].pc = "reread", ![v].counted = TRUE]
    /\ UNCHANGED <<payments, platformFees, investors, req, mediaVars, viralVars, adminVars, cryptoVars, commentVars>>

\* await storage.incrementViewCount(req.params.id)
ViewIncrement(v) ==
    /\ ViewOf(v).pc = "increment"
    /\ incrementViewCount
    /\ views' = [views EXCEPT ![v].pc = "reread", ![v].counted = TRUE]
    /\ UNCHANGED <<payments, platformFees, investors, req, mediaVars, viralVars, adminVars, cryptoVars, commentVars>>

\* const updatedPost = await storage.getPost(req.params.id), the viewUpdate
\* broadcast and the response {success: true, viewCount}
ViewReread(v) ==
    /\ ViewOf(v).pc = "reread"
    /\ views' = [views EXCEPT ![v].pc = "done", ![v].outcome = "counted",
                              ![v].viewCount = post.viewCount]
    /\ UNCHANGED <<post, payments, platformFees, investors, req, mediaVars, viralVars, adminVars, cryptoVars, commentVars>>

\* a statement of the handler throws: the catch block answers 500
ViewFail(v) ==
    /\ ViewOf(v).pc \in {"increment", "reread"}
    /\ views' = [views EXCEPT ![v].pc = "done", ![v].outcome = "error"]
    /\ UNCHANGED <<post, payments, platformFees, investors, req, mediaVars, viralVars, adminVars, cryptoVars, commentVars>>

\* view requests, while a payment request of the client runs
NextViews ==
    \/ \E r \in FirstRequest : StartClient(r) \/ Step(r)
    \/ \E v \in ViewRequests :
          ViewReceive(v) \/ ViewIncrement(v) \/ ViewReread(v) \/ ViewFail(v)

InitViews ==
    /\ InitLedgerPlain /\ MediaAtRest /\ ViewsAtRest /\ ViralAtRest
    /\ AdminAtRest /\ EnvelopeAtRest /\ CommentsAtRest

SpecViews == InitViews /\ [][NextViews]_vars

(***************************************************************************)
(* POST /api/posts/:id/vote, routes.ts 984-1033, with                      *)
(* DatabaseStorage.createOrUpdateVote, storage.ts 498-556.                 *)
(***************************************************************************)
VoteGoto(v, pc) == voteReq' = [voteReq EXCEPT ![v].pc = pc]

\* the response; the locals of the handler are gone with it
VoteRespond(v, outcome) ==
    voteReq' = Put(voteReq, v,
                   [IdleVote EXCEPT !.pc = "done", !.outcome = outcome])

\* what follows createOrUpdateVote reads the post and writes a notification
\* of the creator: storage.getPost, the 'like' notification, the
\* voteUpdate broadcast and res.json({ success: true }), or the catch
\* block's 500 when one of the two statements throws
VoteAnswer(v) ==
    \E outcome \in {"voted", "error"} : VoteRespond(v, outcome)

\* vote requests are numbered in the order they arrive
VoteMayStart(v) ==
    /\ VoteOf(v).pc = "idle"
    /\ IF v = 1 THEN TRUE ELSE VoteOf(v - 1).pc # "idle"

\* DatabaseStorage.getUserVote
getUserVote(userId, postId) ==
    {w \in votes : w.userId = userId /\ w.postId = postId}

\* getCurrentUser, the voteType check, and the first statement of
\* createOrUpdateVote: const existing = await this.getUserVote(...)
VoteReceive(v, userId, postId, voteType) ==
    /\ VoteMayStart(v)
    /\ LET arrived == [IdleVote EXCEPT !.userId = userId,
                                         !.postId = postId,
                                         !.voteType = voteType]
           found == getUserVote(userId, postId)
       IN  IF voteType \notin {"up", "down"}
           THEN VoteRespond(v, "badVote")
           ELSE IF found = {}
           THEN voteReq' = Put(voteReq, v, [arrived EXCEPT !.pc = "insert"])
           ELSE voteReq' = Put(voteReq, v,
                              [arrived EXCEPT
                                  !.pc = "recount",
                                  !.existing =
                                      (CHOOSE w \in found : TRUE).voteType])
    /\ UNCHANGED <<feed, votes, sweep, trail>>
    /\ UNCHANGED <<ledgerVars, mediaVars, viewVars, adminVars, cryptoVars, commentVars>>

\* votes.uniqueUserPostVote
uniqueUserPostVote(userId, postId) == getUserVote(userId, postId) # {}

\* no existing vote: db.insert(votes).values(insertVote), refused by the
\* unique constraint when a row of the user and post exists meanwhile
VoteInsert(v) ==
    /\ VoteOf(v).pc = "insert"
    /\ IF uniqueUserPostVote(VoteOf(v).userId, VoteOf(v).postId)
       THEN VoteRespond(v, "dupVote") /\ UNCHANGED votes
       ELSE /\ votes' = votes \cup
                   {[userId |-> VoteOf(v).userId,
                     postId |-> VoteOf(v).postId,
                     voteType |-> VoteOf(v).voteType]}
            /\ VoteGoto(v, "count")
    /\ UNCHANGED <<feed, sweep, trail>>
    /\ UNCHANGED <<ledgerVars, mediaVars, viewVars, adminVars, cryptoVars, commentVars>>

\* the updates object of createOrUpdateVote: the counters it writes, each
\* as the change of the column.  With an existing vote the decrement of the
\* old type is set first and the increment of the new type second, into
\* the same object: for the same type the increment replaces the decrement.
updates(existing, voteType) ==
    LET afterOld ==
            IF existing = "up" THEN [upvoteCount |-> -1, downvoteCount |-> 0]
            ELSE IF existing = "down"
            THEN [upvoteCount |-> 0, downvoteCount |-> -1]
            ELSE [upvoteCount |-> 0, downvoteCount |-> 0]
    IN  IF voteType = "up"
        THEN [afterOld EXCEPT !.upvoteCount = 1]
        ELSE [afterOld EXCEPT !.downvoteCount = 1]

\* db.update(posts).set(updates): the new vote's counter (pc "count"), or
\* after the getPost of the existing-vote branch (pc "recount")
VoteCount(v) ==
    /\ VoteOf(v).pc \in {"count", "recount"}
    /\ LET u == updates(VoteOf(v).existing, VoteOf(v).voteType)
           p == VoteOf(v).postId
       IN  feed' = [feed EXCEPT
                       ![p].upvoteCount = @ + u.upvoteCount,
                       ![p].downvoteCount = @ + u.downvoteCount]
    /\ IF VoteOf(v).pc = "count" THEN VoteAnswer(v)
                                  ELSE VoteGoto(v, "setVote")
    /\ UNCHANGED <<votes, sweep, trail>>
    /\ UNCHANGED <<ledgerVars, mediaVars, viewVars, adminVars, cryptoVars, commentVars>>

\* existing vote: db.update(votes).set({ voteType })
VoteSet(v) ==
    /\ VoteOf(v).pc = "setVote"
    /\ votes' = {IF w.userId = VoteOf(v).userId
                    /\ w.postId = VoteOf(v).postId
                 THEN [w EXCEPT !.voteType = VoteOf(v).voteType]
                 ELSE w : w \in votes}
    /\ VoteAnswer(v)
    /\ UNCHANGED <<feed, sweep, trail>>
    /\ UNCHANGED <<ledgerVars, mediaVars, viewVars, adminVars, cryptoVars, commentVars>>

\* a statement of the handler throws: the catch block answers 500
VoteFail(v) ==
    /\ VoteOf(v).pc \in {"insert", "count", "recount", "setVote"}
    /\ VoteRespond(v, "error")
    /\ UNCHANGED <<feed, votes, sweep, trail>>
    /\ UNCHANGED <<ledgerVars, mediaVars, viewVars, adminVars, cryptoVars, commentVars>>

VoteStart(v) ==
    \E userId \in Voters, postId \in PostIds, voteType \in VoteTypes :
        VoteReceive(v, userId, postId, voteType)

\* a vote request sent after the previous response
VoteStartSeq(v) ==
    /\ IF v = 1 THEN TRUE ELSE VoteOf(v - 1).pc = "done"
    /\ VoteStart(v)

(***************************************************************************)
(* The viral detection worker, routes.ts 1713-1742, with                   *)
(* DatabaseStorage.markPostViral, storage.ts 337-348.  A run reads all     *)
(* posts once and then goes through what it read; the statements between   *)
(* two awaits run without interruption.                                    *)
(***************************************************************************)
\* the test of the loop as it would be without "if (post.isViral) continue"
promotes_thresholdOnly(row) == row.upvoteCount >= VIRAL_UPVOTE_THRESHOLD

\* the posts of the snapshot the loop marks
promotes(row) ==
    ~row.isViral /\ row.upvoteCount >= VIRAL_UPVOTE_THRESHOLD

\* the next post of the snapshot, from position from on, that the loop
\* marks; 0 when the loop ends without another
NextPromoted(posts, from) ==
    LET rest == {p \in PostIds : p >= from /\ promotes(posts[p])}
    IN  IF rest = {} THEN 0
        ELSE CHOOSE p \in rest : \A q \in rest : p <= q

\* the run is over; its locals are gone with it
SweepOver(s, outcome) ==
    sweep' = Put(sweep, s,
                 [IdleSweep EXCEPT !.pc = "done", !.outcome = outcome])

\* the loop runs on to the next markPostViral call, or to its end
SweepOn(s, posts, from) ==
    LET p == NextPromoted(posts, from)
    IN  IF p = 0
        THEN SweepOver(s, "swept")
        ELSE sweep' = Put(sweep, s,
                         [pc |-> "mark", posts |-> posts, next |-> p,
                          outcome |-> "none"])

\* the runs of the worker follow one another
SweepMayStart(s) ==
    /\ SweepOf(s).pc = "idle"
    /\ IF s = 1 THEN TRUE ELSE SweepOf(s - 1).pc = "done"

\* const posts = await storage.getAllPostsWithCreators()
SweepRead(s) ==
    /\ SweepMayStart(s)
    /\ SweepOn(s, feed, 1)
    /\ UNCHANGED <<feed, votes, voteReq, trail>>
    /\ UNCHANGED <<ledgerVars, mediaVars, viewVars, adminVars, cryptoVars, commentVars>>

\* DatabaseStorage.markPostViral: isViral = true, viralDetectedAt = now (the
\* time of run s)
markPostViral(postId, s) ==
    feed' = [feed EXCEPT ![postId].isViral = TRUE,
                         ![postId].viralDetectedAt = s]

\* await storage.markPostViral(post.id), then the viralNotification
\* broadcast, then the loop goes on
SweepMark(s) ==
    /\ SweepOf(s).pc = "mark"
    /\ markPostViral(SweepOf(s).next, s)
    /\ trail' = [trail EXCEPT ![SweepOf(s).next].marked = @ + 1,
                              ![SweepOf(s).next].notified = @ + 1]
    /\ SweepOn(s, SweepOf(s).posts, SweepOf(s).next + 1)
    /\ UNCHANGED <<votes, voteReq>>
    /\ UNCHANGED <<ledgerVars, mediaVars, viewVars, adminVars, cryptoVars, commentVars>>

\* getAllPostsWithCreators or markPostViral throws: the catch block around
\* the loop logs the error and the run is over
SweepFail(s) ==
    /\ SweepMayStart(s) \/ SweepOf(s).pc = "mark"
    /\ SweepOver(s, "error")
    /\ UNCHANGED <<feed, votes, voteReq, trail>>
    /\ UNCHANGED <<ledgerVars, mediaVars, viewVars, adminVars, cryptoVars, commentVars>>

\* posts one vote below the threshold or at it, not yet seen by the worker
AnyFeed ==
    feed \in [PostIds -> {FeedRow(n) : n \in {VIRAL_UPVOTE_THRESHOLD - 1,
                                              VIRAL_UPVOTE_THRESHOLD}}]

\* a ledger no request is sent to
LedgerAtRest ==
    /\ InitLedgerPlain
    /\ ~post.isFree /\ post.investorRevenueShare = 0
    /\ payments = {}

InitViral ==
    /\ LedgerAtRest /\ MediaAtRest /\ ViewsAtRest /\ AnyFeed /\ VotesAtRest
    /\ AdminAtRest /\ EnvelopeAtRest /\ CommentsAtRest

\* the runs of the worker one after the other, while vote requests are
\* sent one after the other
NextViral ==
    \/ \E v \in VoteRequests :
          \/ VoteStartSeq(v) \/ VoteInsert(v) \/ VoteCount(v)
          \/ VoteSet(v) \/ VoteFail(v)
    \/ \E s \in SweepRuns : SweepRead(s) \/ SweepMark(s) \/ SweepFail(s)

SpecViral == InitViral /\ [][NextViral]_vars

\* new posts nobody has voted on, and vote requests that arrive while
\* others run
InitVotes ==
    /\ LedgerAtRest /\ MediaAtRest /\ ViewsAtRest /\ ViralAtRest
    /\ AdminAtRest /\ EnvelopeAtRest /\ CommentsAtRest

NextVotes ==
    \E v \in VoteRequests :
        \/ VoteStart(v) \/ VoteInsert(v) \/ VoteCount(v)
        \/ VoteSet(v) \/ VoteFail(v)

SpecVotes == InitVotes /\ [][NextVotes]_vars

(***************************************************************************)
(* Runs of the worker that overlap: cron.schedule starts the callback at   *)
(* every tick and does not wait for the run before it (and every instance  *)
(* of the server has its own schedule).                                    *)
(***************************************************************************)
\* runs are numbered in the order they start
SweepMayOverlap(s) ==
    /\ SweepOf(s).pc = "idle"
    /\ IF s = 1 THEN TRUE ELSE SweepOf(s - 1).pc # "idle"

\* const posts = await storage.getAllPostsWithCreators(), whether or not
\* the run before has ended
SweepReadOverlapping(s) ==
    /\ SweepMayOverlap(s)
    /\ SweepOn(s, feed, 1)
    /\ UNCHANGED <<feed, votes, voteReq, trail>>
    /\ UNCHANGED <<ledgerVars, mediaVars, viewVars, adminVars, cryptoVars, commentVars>>

\* markPostViral throws in a run
SweepMarkFail(s) == SweepOf(s).pc = "mark" /\ SweepFail(s)

NextOverlap ==
    \/ \E v \in VoteRequests :
          \/ VoteStartSeq(v) \/ VoteInsert(v) \/ VoteCount(v)
          \/ VoteSet(v) \/ VoteFail(v)
    \/ \E s \in SweepRuns :
          SweepReadOverlapping(s) \/ SweepMark(s) \/ SweepMarkFail(s)

InitOverlap ==
    /\ LedgerAtRest /\ MediaAtRest /\ ViewsAtRest /\ AnyFeed /\ VotesAtRest
    /\ AdminAtRest /\ EnvelopeAtRest /\ CommentsAtRest

SpecOverlap == InitOverlap /\ [][NextOverlap]_vars

(***************************************************************************)
(* The worker as cron.schedule('*/5 * * * *') runs it for good, while      *)
(* markPostViral throws for one post whenever it is called for it.         *)
(***************************************************************************)
\* the post whose row cannot be written: the first of the snapshot
Stuck == 1

\* the next tick of the schedule after a run is over
SweepAgain(s) ==
    /\ SweepOf(s).pc = "done"
    /\ sweep' = <<>>
    /\ UNCHANGED <<feed, votes, voteReq, trail>>
    /\ UNCHANGED <<ledgerVars, mediaVars, viewVars, adminVars, cryptoVars, commentVars>>

\* markPostViral returns for the other posts
SweepMarkOther(s) == SweepOf(s).next # Stuck /\ SweepMark(s)

\* and throws for that post
SweepFailStuck(s) ==
    /\ SweepOf(s).pc = "mark"
    /\ SweepOf(s).next = Stuck
    /\ SweepFail(s)

Tick(s) ==
    SweepRead(s) \/ SweepMarkOther(s) \/ SweepFailStuck(s) \/ SweepAgain(s)

NextWorker ==
    \/ \E v \in VoteRequests :
          \/ VoteStartSeq(v) \/ VoteInsert(v) \/ VoteCount(v)
          \/ VoteSet(v) \/ VoteFail(v)
    \/ Tick(1)

InitWorker ==
    /\ LedgerAtRest /\ MediaAtRest /\ ViewsAtRest /\ AnyFeed /\ VotesAtRest
    /\ AdminAtRest /\ EnvelopeAtRest /\ CommentsAtRest

\* the schedule keeps firing and every awaited statement of a run returns
\* or throws
SpecWorker == InitWorker /\ [][NextWorker]_vars /\ WF_vars(Tick(1))

(***************************************************************************)
(* The cleanup script, unnamed/part_002 (cleanupPosts): it deletes the     *)
(* posts of three named users and what hangs on them, one awaited delete   *)
(* after the other, outside any transaction.                               *)
(***************************************************************************)
\* select the target users and their posts: the post is among them, or
\* the script returns with nothing to delete
CleanupStart ==
    /\ cleanup = "idle"
    /\ \E targeted \in BOOLEAN :
          cleanup' = IF targeted THEN "votes" ELSE "done"
    /\ UNCHANGED backfill
    /\ UNCHANGED <<ledgerVars, mediaVars, viewVars, viralVars, cryptoVars, commentVars>>

\* 1. delete notifications, 2. delete votes, 3. delete comments
CleanupVotes ==
    /\ cleanup = "votes"
    /\ votes' = {}
    /\ cleanup' = "payments"
    /\ UNCHANGED backfill
    /\ UNCHANGED <<feed, voteReq, sweep, trail>>
    /\ UNCHANGED <<ledgerVars, mediaVars, viewVars, cryptoVars, commentVars>>

\* 4. db.delete(payments).where(inArray(payments.postId, postIds)); the
\* rows of platform_fees go with their payment (onDelete: cascade)
CleanupPayments ==
    /\ cleanup = "payments"
    /\ payments' = {}
    /\ platformFees' = {}
    /\ cleanup' = "posts"
    /\ UNCHANGED backfill
    /\ UNCHANGED <<post, investors, req>>
    /\ UNCHANGED <<mediaVars, viewVars, viralVars, cryptoVars, commentVars>>

\* 5. db.delete(posts): the rows of investors go with the post (onDelete:
\* cascade).  Taken once the requests in flight are answered; no request
\* finds the post afterwards.
CleanupPosts ==
    /\ cleanup = "posts"
    /\ \A r \in Requests : ~InFlight(r)
    /\ investors' = {}
    /\ cleanup' = "done"
    /\ UNCHANGED backfill
    /\ UNCHANGED <<post, payments, platformFees, req>>
    /\ UNCHANGED <<mediaVars, viewVars, viralVars, cryptoVars, commentVars>>

\* a delete throws: the script logs the error and exits, what it deleted
\* stays deleted
CleanupFail ==
    /\ cleanup \in {"votes", "payments", "posts"}
    /\ cleanup' = "failed"
    /\ UNCHANGED backfill
    /\ UNCHANGED <<ledgerVars, mediaVars, viewVars, viralVars, cryptoVars, commentVars>>

\* a payment request of the client, while the post exists
StartBeforeCleanup(r) == cleanup # "done" /\ StartClient(r)

NextCleanup ==
    \/ \E r \in FirstRequest : StartBeforeCleanup(r) \/ Step(r)
    \/ CleanupStart \/ CleanupVotes \/ CleanupPayments \/ CleanupPosts
    \/ CleanupFail

InitCleanup ==
    /\ InitLedgerPlain /\ MediaAtRest /\ ViewsAtRest /\ ViralAtRest
    /\ AdminAtRest /\ EnvelopeAtRest /\ CommentsAtRest

SpecCleanup == InitCleanup /\ [][NextCleanup]_vars

(***************************************************************************)
(* The encryption service used on its own, services/encryption.ts: a       *)
(* buffer is encrypted under a content key, or a content key under the     *)
(* master key; what comes back may be altered before it is handed to the   *)
(* decrypting function.                                                    *)
(***************************************************************************)
\* the keys generateContentKey() can return and the ivs randomBytes(12)
\* can return
Keys == {Fill(KEY_LENGTH, b) : b \in Bytes}
Ivs == {Fill(IV_LENGTH, b) : b \in Bytes}

\* a buffer other than buf: one element changed, one element more, one
\* element less
Tampered(buf) ==
    {Flip(buf, i) : i \in 1 .. Len(buf)}
        \cup {Append(buf, 0)}
        \cup (IF Len(buf) > 0 THEN {SubSeq(buf, 1, Len(buf) - 1)} ELSE {})

\* encryptBuffer(buffer, key)
EnvelopeEncrypt ==
    /\ envelope.pc = "idle"
    /\ \E buffer \in Buffers, key \in Keys, iv \in Ivs :
          LET result == encryptBuffer(buffer, key, iv)
          IN  envelope' =
                  [pc |-> "sealed", mode |-> "buffer", buffer |-> buffer,
                   key |-> key, sealed |-> result,
                   handed |-> [encrypted |-> result.encrypted, key |-> key,
                               iv |-> result.iv, authTag |-> result.authTag],
                   opened |-> Thrown]
    /\ UNCHANGED <<ledgerVars, mediaVars, viewVars, viralVars, adminVars, commentVars>>

\* encryptContentKey(contentKey)
EnvelopeEncryptKey ==
    /\ envelope.pc = "idle"
    /\ \E contentKey \in Keys, iv \in Ivs :
          LET encryptedKeyData == encryptContentKey(contentKey, iv)
          IN  envelope' =
                  [pc |-> "sealed", mode |-> "contentKey",
                   buffer |-> contentKey, key |-> MASTER_KEY_BUFFER,
                   sealed |-> encryptedKeyData, handed |-> encryptedKeyData,
                   opened |-> Thrown]
    /\ UNCHANGED <<ledgerVars, mediaVars, viewVars, viralVars, adminVars, commentVars>>

\* the ciphertext is altered on its way to decryptBuffer
TamperCiphertext ==
    /\ envelope.pc = "sealed"
    /\ IF envelope.mode = "buffer"
       THEN /\ envelope.handed.encrypted = envelope.sealed.encrypted
            /\ \E t \in Tampered(envelope.sealed.encrypted) :
                  envelope' = [envelope EXCEPT !.handed.encrypted = t]
       ELSE /\ envelope.handed.encryptedKey = envelope.sealed.encryptedKey
            /\ \E t \in Tampered(fromBase64(envelope.sealed.encryptedKey)) :
                  envelope' =
                      [envelope EXCEPT !.handed.encryptedKey = toBase64(t)]
    /\ UNCHANGED <<ledgerVars, mediaVars, viewVars, viralVars, adminVars, commentVars>>

\* the auth tag is altered on its way to decryptBuffer
TamperAuthTag ==
    /\ envelope.pc = "sealed"
    /\ envelope.handed.authTag = envelope.sealed.authTag
    /\ IF envelope.mode = "buffer"
       THEN \E t \in Tampered(envelope.sealed.authTag) :
                envelope' = [envelope EXCEPT !.handed.authTag = t]
       ELSE \E t \in Tampered(fromBase64(envelope.sealed.authTag)) :
                envelope' = [envelope EXCEPT !.handed.authTag = toBase64(t)]
    /\ UNCHANGED <<ledgerVars, mediaVars, viewVars, viralVars, adminVars, commentVars>>

\* decryptBuffer is called with another key than encryptBuffer was
UseOtherKey ==
    /\ envelope.pc = "sealed"
    /\ envelope.mode = "buffer"
    /\ envelope.handed.key = envelope.key
    /\ \E key \in Keys \ {envelope.key} :
          envelope' = [envelope EXCEPT !.handed.key = key]
    /\ UNCHANGED <<ledgerVars, mediaVars, viewVars, viralVars, adminVars, commentVars>>

\* decryptBuffer(encrypted, key, iv, authTag)
EnvelopeDecrypt ==
    /\ envelope.pc = "sealed"
    /\ envelope.mode = "buffer"
    /\ envelope' =
           [envelope EXCEPT
               !.pc = "opened",
               !.opened = decryptBuffer(envelope.handed.encrypted,
                                        envelope.handed.key,
                                        envelope.handed.iv,
                                        envelope.handed.authTag)]
    /\ UNCHANGED <<ledgerVars, mediaVars, viewVars, viralVars, adminVars, commentVars>>

\* decryptContentKey(encryptedKeyData)
EnvelopeDecryptKey ==
    /\ envelope.pc = "sealed"
    /\ envelope.mode = "contentKey"
    /\ envelope' =
           [envelope EXCEPT
               !.pc = "opened",
               !.opened = decryptContentKey(envelope.handed)]
    /\ UNCHANGED <<ledgerVars, mediaVars, viewVars, viralVars, adminVars, commentVars>>

NextEnvelope ==
    \/ EnvelopeEncrypt \/ EnvelopeEncryptKey
    \/ TamperCiphertext \/ TamperAuthTag \/ UseOtherKey
    \/ EnvelopeDecrypt \/ EnvelopeDecryptKey

InitEnvelope ==
    /\ LedgerAtRest /\ MediaAtRest /\ ViewsAtRest /\ ViralAtRest
    /\ AdminAtRest /\ EnvelopeAtRest /\ CommentsAtRest

SpecEnvelope == InitEnvelope /\ [][NextEnvelope]_vars

(***************************************************************************)
(* POST /api/posts/:id/comments, routes.ts 1278-1328.                      *)
(***************************************************************************)
CommentRespond(outcome) ==
    commentReq' = [pc |-> "done", author |-> commentReq.author,
                   outcome |-> outcome]

\* getCurrentUser (401 without a user), storage.getPost, and
\* "if (post.commentsLocked)"
CommentReceive(author) ==
    /\ commentReq.pc = "idle"
    /\ IF author = Anonymous
       THEN commentReq' = [pc |-> "done", author |-> author,
                           outcome |-> "unauthorized"]
       ELSE commentReq' =
                [pc |-> IF post.commentsLocked THEN "paidContent"
                                               ELSE "create",
                 author |-> author, hasPaidContent |-> FALSE]
    /\ UNCHANGED <<ledgerVars, mediaVars, viewVars, viralVars, adminVars, cryptoVars, comments>>

\* const hasPaidContent = await storage.hasUserPaid(user.id, id, 'content')
CommentPaidContent ==
    /\ commentReq.pc = "paidContent"
    /\ commentReq' =
           [commentReq EXCEPT
               !.pc = "paidComment",
               !.hasPaidContent = hasUserPaid(commentReq.author, "content")]
    /\ UNCHANGED <<ledgerVars, mediaVars, viewVars, viralVars, adminVars, cryptoVars, comments>>

\* const hasPaidComment = await storage.hasUserPaid(user.id, id, 'comment'),
\* isCreator, and "if (!hasPaidContent && !hasPaidComment && !isCreator)"
\* the 403
CommentPaidComment ==
    /\ commentReq.pc = "paidComment"
    /\ LET hasPaidComment == hasUserPaid(commentReq.author, "comment")
           isCreator == commentReq.author = CreatorId
       IN  IF ~commentReq.hasPaidContent /\ ~hasPaidComment /\ ~isCreator
           THEN CommentRespond("forbidden")
           ELSE commentReq' = [commentReq EXCEPT !.pc = "create"]
    /\ UNCHANGED <<ledgerVars, mediaVars, viewVars, viralVars, adminVars, cryptoVars, comments>>

\* storage.createComment, then the notification of the creator and
\* res.json(comment), or the catch block's 500 when the notification throws
CommentCreate ==
    /\ commentReq.pc = "create"
    /\ comments' = comments \cup {[userId |-> commentReq.author]}
    /\ \E outcome \in {"created", "error"} : CommentRespond(outcome)
    /\ UNCHANGED <<ledgerVars, mediaVars, viewVars, viralVars, adminVars, cryptoVars>>

\* a statement before the insert throws: the catch block answers 500
CommentFail ==
    /\ commentReq.pc \in {"paidContent", "paidComment", "create"}
    /\ CommentRespond("error")
    /\ UNCHANGED <<ledgerVars, mediaVars, viewVars, viralVars, adminVars, cryptoVars, comments>>

\* a post with one investor slot, its comments locked or not
InitComments ==
    /\ InitLedger /\ post.maxInvestors = 1
    /\ MediaAtRest /\ ViewsAtRest /\ ViralAtRest
    /\ AdminAtRest /\ EnvelopeAtRest /\ CommentsAtRest

\* one comment request, while a payment request of the client runs
NextComments ==
    \/ \E r \in FirstRequest : StartClient(r) \/ Step(r)
    \/ \E author \in Viewers : CommentReceive(author)
    \/ CommentPaidContent
    \/ CommentPaidComment
    \/ CommentCreate
    \/ CommentFail

SpecComments == InitComments /\ [][NextComments]_vars

(***************************************************************************)
(* POST /api/admin/backfill-investor-earnings, routes.ts 1646-1709, for    *)
(* the post (its buyoutPrice is set).                                      *)
(***************************************************************************)
\* paymentsAfterFirst10.length * 0.05, then toFixed(2): a multiple of 0.05
\* has two decimals
earningsPerInvestor(postPayments) ==
    IF postPayments > BACKFILL_FIRST_PAYMENTS
    THEN (postPayments - BACKFILL_FIRST_PAYMENTS) * BACKFILL_PER_PAYMENT
    ELSE 0

BackfillRespond(outcome) ==
    backfill' = [backfill EXCEPT !.pc = "done", !.outcome = outcome]

\* getCurrentUser, the posts with a buyoutPrice, the 'content' payments of
\* the post and its investors by position; "if (postInvestors.length === 0)
\* continue".  The request is sent when the payment requests are answered.
BackfillRead ==
    /\ backfill.pc = "idle"
    /\ \A r \in Requests : ~InFlight(r)
    /\ LET postPayments ==
               Cardinality({p \in payments : p.paymentType = "content"})
           postInvestors == OrderByPosition(investors)
       IN  backfill' =
               [pc |-> IF postInvestors = <<>> THEN "done" ELSE "reset",
                postPayments |-> postPayments,
                postInvestors |-> postInvestors,
                idx |-> 1,
                outcome |-> IF postInvestors = <<>> THEN "backfilled"
                                                    ELSE "none"]
    /\ UNCHANGED <<ledgerVars, cleanup, mediaVars, viewVars, viralVars, cryptoVars, commentVars>>

\* the totalEarnings of the investor the loop is at becomes value
BackfillSet(value) ==
    investors' =
        {IF i.id = backfill.postInvestors[backfill.idx].id
         THEN [i EXCEPT !.totalEarnings = value] ELSE i : i \in investors}

\* "Reset all investor earnings to 0": one UPDATE per investor
BackfillReset ==
    /\ backfill.pc = "reset"
    /\ BackfillSet(0)
    /\ backfill' =
           IF backfill.idx = Len(backfill.postInvestors)
           THEN [backfill EXCEPT !.pc = "write", !.idx = 1]
           ELSE [backfill EXCEPT !.idx = @ + 1]
    /\ UNCHANGED <<post, payments, platformFees, req, cleanup, mediaVars, viewVars, viralVars, cryptoVars, commentVars>>

\* "Update each investor's earnings": one UPDATE per investor, then the
\* response
BackfillWrite ==
    /\ backfill.pc = "write"
    /\ BackfillSet(earningsPerInvestor(backfill.postPayments))
    /\ IF backfill.idx = Len(backfill.postInvestors)
       THEN BackfillRespond("backfilled")
       ELSE backfill' = [backfill EXCEPT !.idx = @ + 1]
    /\ UNCHANGED <<post, payments, platformFees, req, cleanup, mediaVars, viewVars, viralVars, cryptoVars, commentVars>>

\* a statement throws: the catch block answers 500
BackfillFail ==
    /\ backfill.pc \in {"reset", "write"}
    /\ BackfillRespond("error")
    /\ UNCHANGED <<ledgerVars, cleanup, mediaVars, viewVars, viralVars, cryptoVars, commentVars>>

\* a payment request sent before the backfill request
StartBeforeBackfill(r) == backfill.pc = "idle" /\ StartSeq(r)

\* payment requests one after the other, then the backfill
NextBackfill ==
    \/ \E r \in Requests : StartBeforeBackfill(r) \/ Step(r)
    \/ BackfillRead \/ BackfillReset \/ BackfillWrite \/ BackfillFail

InitBackfill ==
    /\ InitLedger /\ MediaAtRest /\ ViewsAtRest /\ ViralAtRest
    /\ AdminAtRest /\ EnvelopeAtRest /\ CommentsAtRest

SpecBackfill == InitBackfill /\ [][NextBackfill]_vars

(***************************************************************************)
(* Vocabulary of the properties.                                           *)
(***************************************************************************)
Done(r) == req[r].pc = "done"

Quiescent == \A r \in Requests : ~InFlight(r)

\* the PaymentRecords of the tuple (userId, post, paymentType)
RecordsOf(userId, paymentType) ==
    {p \in payments : p.userId = userId /\ p.paymentType = paymentType}

\* what request r wrote
PaymentsBy(r) == {p \in payments : p.id = r}
FeesBy(r) == {f \in platformFees : f.paymentId = r}
PositionsBy(r) == {i \in investors : i.id = r}

WroteNothing(r) ==
    /\ PaymentsBy(r) = {}
    /\ FeesBy(r) = {}
    /\ PositionsBy(r) = {}
    /\ req[r].credited = 0

\* r2 is the request r1 sent again: same handler, payer and body
SameRequest(r1, r2) ==
    /\ req[r1].kind = req[r2].kind
    /\ req[r1].userId = req[r2].userId
    /\ req[r1].isBuyout = req[r2].isBuyout
    /\ req[r1].amount = req[r2].amount
    /\ req[r1].cryptocurrency = req[r2].cryptocurrency
    /\ req[r1].network = req[r2].network

\* r1 was answered, then r2 was sent and answered (under SpecSeq requests
\* run one after the other in the order of their numbers)
Resubmitted(r1, r2) ==
    /\ r1 < r2
    /\ Done(r1) /\ Done(r2)
    /\ SameRequest(r1, r2)

(***************************************************************************)
(* C1, as stated: whenever a payment request was submitted twice in        *)
(* sequence and neither submission was refused by validation or hit a      *)
(* database failure, exactly one PaymentRecord of the tuple exists, the     *)
(* second submission was answered alreadyPaid and it wrote nothing.        *)
(* Fails (SpecSeq): on a free post, and for pay-comment on a post whose     *)
(* comments are not locked, both submissions are answered alreadyPaid and   *)
(* no PaymentRecord exists.                                                 *)
(***************************************************************************)
Refused == {"badCurrency", "badNetwork", "slotsFull", "ioError"}

NothingDue(r) ==
    \/ req[r].kind = "pay" /\ post.isFree
    \/ req[r].kind = "payComment" /\ ~post.commentsLocked

C2_AtMostOneRecordPerTuple ==
    \A p, q \in payments :
        (p.userId = q.userId /\ p.paymentType = q.paymentType) => p = q

\* two requests of one payer and one paymentType both passed the
\* already-paid check; one has inserted its row, the other is about to
C2_Witness ==
    \E r1, r2 \in Requests :
        /\ r1 # r2
        /\ req[r1].userId = req[r2].userId
        /\ req[r1].kind = req[r2].kind
        /\ req[r1].pc = "insPay"
        /\ \E p \in PaymentsBy(r2) :
              p.paymentType = PaymentTypeOf(req[r2].kind)

(***************************************************************************)
(* C3, as stated: a request that passed the already-paid check and then    *)
(* lost the uniqueness race on its insert is answered alreadyPaid, never    *)
(* with an error.  Fails (Spec): createPayment lets the unique-constraint   *)
(* error through and the handler's catch block answers 500.                 *)
(***************************************************************************)
C3_RaceLoserAnsweredAlreadyPaid ==
    \A r \in Requests : req[r].outcome # "dupPayment"

(***************************************************************************)
(* C4, as stated: no state holds a PaymentRecord written by a request      *)
(* that was answered with a failure.  Fails (Spec): the handler runs its    *)
(* statements outside any transaction, so a failure after the insert       *)
(* leaves the PaymentRecord behind.                                         *)
(***************************************************************************)
C4_FailedRequestLeavesNoRecord ==
    \A r \in Requests :
        (Done(r) /\ req[r].outcome \in Http500) => PaymentsBy(r) = {}

(***************************************************************************)
(* C5, as stated: of two buyout requests by different payers at most one   *)
(* wins a slot they both compete for, and then the other is rejected:      *)
(* never are both answered with success while only one of the two payers   *)
(* holds an InvestorPosition.  Fails (Spec): the request that re-reads the  *)
(* investors after the other took the last slot falls through to the        *)
(* regular-payment branches and is answered success.                        *)
(***************************************************************************)
BuyoutBy(r) == req[r].kind = "pay" /\ req[r].isBuyout

HoldsPosition(userId) == \E i \in investors : i.userId = userId

C5_LastSlotOneSuccess ==
    \A r1, r2 \in Requests :
        (/\ r1 # r2
         /\ BuyoutBy(r1) /\ BuyoutBy(r2)
         /\ req[r1].userId # req[r2].userId
         /\ req[r1].outcome = "paid" /\ req[r2].outcome = "paid")
        => (HoldsPosition(req[r1].userId) <=> HoldsPosition(req[r2].userId))

(***************************************************************************)
(* C6: with requests sent one after the other, once N = maxInvestorSlots   *)
(* buyout payments have succeeded the positions of the post are exactly    *)
(* {1, ..., N}, one per successful buyer, and a buyout request sent after   *)
(* that takes no slot and writes nothing: it is answered "slots full"       *)
(* unless the handler answers it earlier, which it does only to a payer     *)
(* that has paid already (alreadyPaid), to a currency the post does not     *)
(* accept, to a network that is not one of the currency's, or on a          *)
(* database failure.  (SpecSeq)                                             *)
(***************************************************************************)
Positions == {i.position : i \in investors}

\* the early buyers of the initial ledger, and the requests answered
\* "paid" to a buyout
EarlyBuyers == {i \in investors : i.id < 0}
PaidBuyouts == {r \in Requests : BuyoutBy(r) /\ req[r].outcome = "paid"}
SuccessfulBuyouts == Cardinality(EarlyBuyers) + Cardinality(PaidBuyouts)

\* the successful buyouts when request r was sent
SuccessfulBuyoutsBefore(r) ==
    Cardinality(EarlyBuyers) + Cardinality({q \in PaidBuyouts : q < r})

PaidContentBefore(r) ==
    \E p \in payments :
        p.userId = req[r].userId /\ p.paymentType = "content" /\ p.id < r

C6_SlotDensity ==
    /\ SuccessfulBuyouts = maxInvestorSlots
          => /\ Positions = 1 .. maxInvestorSlots
             /\ Cardinality(investors) = maxInvestorSlots
             /\ \A r \in PaidBuyouts : PositionsBy(r) # {}
    /\ \A r \in Requests :
          (/\ Done(r) /\ BuyoutBy(r)
           /\ SuccessfulBuyoutsBefore(r) = maxInvestorSlots)
          => /\ PositionsBy(r) = {}
             /\ req[r].outcome \in
                   {"slotsFull", "alreadyPaid", "badCurrency", "badNetwork",
                    "ioError"}
             /\ req[r].outcome = "alreadyPaid" => PaidContentBefore(r)
             /\ req[r].outcome = "badCurrency"
                   => req[r].cryptocurrency \notin AcceptedCryptos
             /\ req[r].outcome = "badNetwork"
                   => selectedNetwork(req[r].network)
                         \notin validNetworks(req[r].cryptocurrency)
             /\ WroteNothing(r)

\* a request took the last slot and the next buyer's request was rejected
C6_Witness ==
    /\ SuccessfulBuyouts = maxInvestorSlots
    /\ \E r1, r2 \in Requests :
          /\ r1 < r2
          /\ r1 \in PaidBuyouts
          /\ \E i \in PositionsBy(r1) : i.position = maxInvestorSlots
          /\ BuyoutBy(r2) /\ req[r2].outcome = "slotsFull"

(***************************************************************************)
(* C7: in every reachable state, whatever the interleaving, the post has   *)
(* at most maxInvestorSlots InvestorPositions, no two of them share a      *)
(* position number, no investor holds two of them, and the position        *)
(* numbers are exactly {1, ..., investorCount}.  (Spec)                     *)
(***************************************************************************)
C7_InvestorSlots ==
    /\ Cardinality(investors) <= maxInvestorSlots
    /\ \A i, j \in investors : i.position = j.position => i = j
    /\ \A i, j \in investors : i.userId = j.userId => i = j
    /\ Positions = 1 .. Cardinality(investors)

\* two buyers raced for one position: one holds it, the other's insert was
\* refused, and the pool is full
C7_Witness ==
    /\ Cardinality(investors) = maxInvestorSlots
    /\ \E r1, r2 \in Requests :
          /\ PositionsBy(r1) # {}
          /\ req[r2].outcome = "dupInvestor"

(***************************************************************************)
(* C8, as stated: after a payment request has finished, with success or    *)
(* with a failure, it has credited every investor of the post or none.     *)
(* Fails (Spec): the loop updates one investor per statement outside any    *)
(* transaction; a statement that throws leaves the earlier investors        *)
(* credited and the later ones not.                                         *)
(***************************************************************************)
C8_AllOrNoneCredited ==
    \A r \in Requests :
        Done(r) => req[r].credited \in {0, Cardinality(investors)}

(***************************************************************************)
(* C9, as stated: when two qualifying payments have both completed their   *)
(* distribution (and no other request credited anyone), every investor's    *)
(* totalEarnings is its prior value, 0, plus the share of the one plus the  *)
(* share of the other.  Fails (Spec): each request writes back the          *)
(* earnings it read plus its own share, so the later write overwrites the   *)
(* other request's credit.                                                  *)
(***************************************************************************)
Distributed(r) ==
    /\ Done(r) /\ req[r].outcome = "paid"
    /\ req[r].credited = Cardinality(investors)
    /\ req[r].credited > 0

\* the earnings of an investor of a pool of size count that started at 0
\* and was credited for amount a, then for amount b
CreditedTwice(a, b, count) == newEarnings(newEarnings(0, a, count), b, count)

C9_BothCreditsLand ==
    \A r1, r2 \in Requests :
        (/\ r1 < r2
         /\ Distributed(r1) /\ Distributed(r2)
         /\ \A q \in Requests \ {r1, r2} : req[q].credited = 0
         /\ \A i \in investors : i.id < 0)
        => \A i \in investors :
              i.totalEarnings \in
                  {CreditedTwice(req[r1].amount, req[r2].amount,
                                 Cardinality(investors)),
                   CreditedTwice(req[r2].amount, req[r1].amount,
                                 Cardinality(investors))}

(***************************************************************************)
(* C10: with requests sent one after the other, when a regular             *)
(* (non-buyout) content payment of amount A on a post with a full pool of   *)
(* K investors and investorRevenueSharePercent R > 0 reaches its response,  *)
(* every investor's totalEarnings is the value it had when the request      *)
(* read the pool plus (A - 0.05) * R / 100 / K, to the nearest micro-unit.  *)
(* (SpecSeq)                                                                *)
(***************************************************************************)
\* (A - 0.05) * R / 100 / K in micro-units, to the nearest one
ExpectedShare(A, R, K) ==
    LET n == (A - 50000) * R
        d == 100 * K
    IN  IF n >= 0 THEN (2 * n + d) \div (2 * d)
        ELSE -((d - 2 * n) \div (2 * d))

EarningsOf(id) == (CHOOSE i \in investors : i.id = id).totalEarnings

QualifyingAtResponse(r) ==
    /\ req[r].pc = "finish"
    /\ req[r].kind = "pay" /\ ~req[r].isBuyout
    /\ Cardinality(investors) = maxInvestorSlots
    /\ post.investorRevenueShare > 0

C10_PerInvestorShare ==
    \A r \in Requests :
        QualifyingAtResponse(r)
        => /\ Len(req[r].existingInvestors) = Cardinality(investors)
           /\ req[r].credited = Cardinality(investors)
           /\ \A k \in 1 .. Len(req[r].existingInvestors) :
                 LET was == req[r].existingInvestors[k]
                 IN  EarningsOf(was.id) =
                         was.totalEarnings
                         + ExpectedShare(req[r].amount,
                                         post.investorRevenueShare,
                                         Cardinality(investors))

\* the example of the specification: K = 2, A = 5.00, R = 20, both
\* investors go from 0 to 0.495
C10_Witness ==
    \E r \in Requests :
        /\ QualifyingAtResponse(r)
        /\ req[r].amount = 5000000
        /\ post.investorRevenueShare = 20
        /\ Cardinality(investors) = 2
        /\ \A k \in 1 .. 2 : req[r].existingInvestors[k].totalEarnings = 0
        /\ \A i \in investors : i.totalEarnings = 495000

(***************************************************************************)
(* C11, as stated: every breakdown the settlement simulator returned       *)
(* conserves the funds: creatorAmount + platformAmount + the sum of the     *)
(* investor amounts is the total amount.  Fails (Spec): processEvmPayment   *)
(* computes creatorAmount = total - platformFee and lists the investor      *)
(* splits beside it, so with a non-empty investor list and a positive       *)
(* revenue share the parts add up to more than the total.                   *)
(***************************************************************************)
RECURSIVE SumSeq(_)
SumSeq(q) == IF q = <<>> THEN 0 ELSE Head(q) + SumSeq(Tail(q))

Settled(r) == req[r].settlement # NoSettlement

C11_SettlementConserves ==
    \A r \in Requests :
        Settled(r)
        => req[r].settlement.creator + req[r].settlement.platform
             + SumSeq(req[r].settlement.investors)
           = req[r].settlement.totalAmount

(***************************************************************************)
(* C12: with requests sent one after the other, when a qualifying payment  *)
(* of amount A on a full pool of K investors with revenue share R reaches   *)
(* its response, the K credits it made add up to (A - 0.05) * R / 100       *)
(* within K micro-units, and so do the K investor amounts of the            *)
(* settlement breakdown it was given.  (SpecSeq)                            *)
(***************************************************************************)
\* | 100 * sum - (A - 0.05) * R | <= 100 * K, in micro-units
WithinTolerance(sum, A, R, K) ==
    LET diff == 100 * sum - (A - 50000) * R
    IN  diff <= 100 * K /\ -diff <= 100 * K

\* what request r, at its response, has added to the investors it read
CreditsOf(r) ==
    [k \in 1 .. Len(req[r].existingInvestors) |->
        EarningsOf(req[r].existingInvestors[k].id)
          - req[r].existingInvestors[k].totalEarnings]

C12_CreditsSumToPool ==
    \A r \in Requests :
        /\ QualifyingAtResponse(r)
           => WithinTolerance(SumSeq(CreditsOf(r)), req[r].amount,
                              post.investorRevenueShare, Cardinality(investors))
        /\ (Done(r) /\ req[r].settlement.investors # <<>>)
           => /\ Len(req[r].settlement.investors) = Cardinality(investors)
              /\ WithinTolerance(SumSeq(req[r].settlement.investors),
                                 req[r].amount, post.investorRevenueShare,
                                 Cardinality(investors))

\* a payment of 0.010001 on a pool of two: each credit is rounded, and the
\* two credits do not add up to the pool exactly
C12_Witness ==
    \E r \in Requests :
        /\ QualifyingAtResponse(r)
        /\ Cardinality(investors) = 2
        /\ req[r].credited = 2
        /\ 100 * SumSeq(CreditsOf(r))
              # (req[r].amount - 50000) * post.investorRevenueShare

(***************************************************************************)
(* C13, as stated: hasPaid(user, post, paymentType) is true when the post  *)
(* is free and paymentType is 'content'; in every other case it is true    *)
(* exactly when a PaymentRecord of (user, post, paymentType) exists.        *)
(* Fails (Spec): hasUserPaid answers true on a free post before it looks    *)
(* at paymentType, so it is true for 'comment' on a free post without any   *)
(* PaymentRecord.                                                           *)
(***************************************************************************)
C13_HasPaidIffRecord ==
    \A userId \in Users, paymentType \in {"content", "comment"} :
        hasUserPaid(userId, paymentType)
        <=> \/ post.isFree /\ paymentType = "content"
            \/ RecordsOf(userId, paymentType) # {}

(***************************************************************************)
(* C14: for a post that is not free, a media request is answered with      *)
(* decrypted media only if the viewer is the creator or holds a 'content'  *)
(* PaymentRecord; nobody, and a user without such a record, is answered    *)
(* with the blurred thumbnail (or, when the payment lookup itself fails,   *)
(* with an error).  A viewer who held a 'content' PaymentRecord before the *)
(* request is answered with the media as uploaded, whenever the stored     *)
(* media decrypts.  (SpecMedia)                                            *)
(***************************************************************************)
MediaDone == mediaReq.pc = "done"

HoldsContentRecord(viewer) ==
    viewer \in Users /\ RecordsOf(viewer, "content") # {}

\* the viewer paid before the media request was sent
PaidEarlier(viewer) ==
    viewer \in Users
    /\ \E p \in RecordsOf(viewer, "content") : p.id < 0

C14_MediaGated ==
    (MediaDone /\ ~post.isFree)
    => /\ mediaReq.outcome = "media"
          => (mediaReq.viewer = CreatorId
              \/ HoldsContentRecord(mediaReq.viewer))
       /\ (mediaReq.viewer # CreatorId
           /\ ~HoldsContentRecord(mediaReq.viewer))
          => /\ mediaReq.outcome \in {"thumbnail", "error"}
             /\ mediaReq.bytes = <<>>
             /\ mediaReq.outcome = "error" => mediaReq.viewer \in Users
       /\ (PaidEarlier(mediaReq.viewer) /\ Decrypted(vault).ok
           /\ mediaReq.outcome # "error")
          => /\ mediaReq.outcome = "media"
             /\ mediaReq.bytes = vault.buffer

\* a user who has not paid asked for the media of a post another user has
\* paid for, and was sent to the thumbnail after the payment lookup
C14_Witness ==
    /\ MediaDone /\ ~post.isFree
    /\ mediaReq.viewer \in Users
    /\ ~HoldsContentRecord(mediaReq.viewer)
    /\ payments # {}
    /\ mediaReq.checked
    /\ mediaReq.outcome = "thumbnail"

(***************************************************************************)
(* C15: for a free post a media request of any viewer, nobody included,    *)
(* never looks at the payments and is never refused: it is answered with   *)
(* the media as uploaded whenever the stored media decrypts, and with the  *)
(* blurred thumbnail otherwise.  (SpecMedia)                               *)
(***************************************************************************)
C15_FreeMediaForAll ==
    (MediaDone /\ post.isFree)
    => /\ ~mediaReq.checked
       /\ IF Decrypted(vault).ok
          THEN mediaReq.outcome = "media"
               /\ mediaReq.bytes = vault.buffer
          ELSE mediaReq.outcome = "thumbnail"

\* nobody asked for the media of a free post and got the uploaded bytes
C15_Witness ==
    /\ MediaDone /\ post.isFree
    /\ mediaReq.viewer = Anonymous
    /\ mediaReq.outcome = "media"
    /\ mediaReq.bytes = vault.buffer
    /\ vault.buffer # <<>>

(***************************************************************************)
(* C16: a media request never sends bytes other than the uploaded buffer,  *)
(* and when the stored media does not decrypt (the file is missing, the    *)
(* file or the envelope of the content key was changed) a viewer the route *)
(* serves (free post, creator, paid) is answered with the blurred          *)
(* thumbnail and no bytes, never with an error.  (SpecMedia)               *)
(***************************************************************************)
\* the request got as far as the try block that decrypts
Served ==
    MediaDone
    /\ \/ servedUnchecked(mediaReq.viewer)
       \/ (PaidEarlier(mediaReq.viewer) /\ mediaReq.outcome # "error")

C16_DecryptFailureDegrades ==
    /\ mediaReq.outcome = "media"
          => mediaReq.bytes = vault.buffer /\ Decrypted(vault).ok
    /\ mediaReq.outcome # "media" => mediaReq.bytes = <<>>
    /\ (Served /\ ~Decrypted(vault).ok)
          => mediaReq.outcome = "thumbnail"

\* the creator asked for media whose stored file was changed, and was sent
\* to the thumbnail
C16_Witness ==
    /\ MediaDone
    /\ mediaReq.viewer = CreatorId
    /\ Disk(vault).file.exists
    /\ ~Decrypted(vault).ok
    /\ mediaReq.outcome = "thumbnail"

(***************************************************************************)
(* C18: a pay request refused by validation (currency not accepted,        *)
(* network not valid for the currency) leaves the post as it found it: it  *)
(* writes no row, and once all requests are answered the viewCount counts  *)
(* only the pay requests that were not refused by validation.  (SpecSeq)   *)
(***************************************************************************)
ValidationRejected(r) ==
    /\ Done(r)
    /\ req[r].kind = "pay"
    /\ req[r].outcome \in {"badCurrency", "badNetwork"}

C18_RejectedChangesNothing ==
    /\ \A r \in Requests : ValidationRejected(r) => WroteNothing(r)
    /\ Quiescent
       => post.viewCount =
             Cardinality({r \in Requests : /\ Done(r)
                                           /\ req[r].kind = "pay"
                                           /\ ~ValidationRejected(r)})

(***************************************************************************)
(* C19: no increment of the view counter is lost: at every moment the      *)
(* viewCount is the number of view requests whose increment has run plus   *)
(* the number of pay requests received, however the requests interleave.   *)
(* (SpecViews)                                                             *)
(***************************************************************************)
CountedViews == {v \in ViewRequests : ViewOf(v).counted}

ReceivedPays == {r \in Requests : req[r].pc # "idle" /\ req[r].kind = "pay"}

FeesOf(p) ==
    {f \in platformFees : f.paymentId = p.id
                          /\ f.paymentType = p.paymentType}

C20_OneFeePerContentPayment ==
    /\ \A p \in payments : Cardinality(FeesOf(p)) <= 1
    /\ (Quiescent /\ ~post.isFree)
       => \A p \in payments :
             p.paymentType = "content"
             => /\ Cardinality(FeesOf(p)) = 1
                /\ \A f \in FeesOf(p) : f.amount = PLATFORM_FEE_USDC

(***************************************************************************)
(* C17: over runs of the viral detection worker that follow one another,   *)
(* with vote requests in between: no step sets a post's isViral back to    *)
(* false or clears its viralDetectedAt, and no step brings the number of   *)
(* viralNotification events of a post above one.  (SpecViral)              *)
(***************************************************************************)
C17_ViralMonotone ==
    [][\A p \in PostIds :
          /\ feed[p].isViral
             => /\ feed'[p].isViral
                /\ feed'[p].viralDetectedAt # 0
          /\ trail'[p].notified <= 1
          /\ trail'[p].notified = 1 => feed'[p].isViral]_vars

\* a post was marked and notified by the first run; the second run found
\* it over the threshold and viral, and left it alone
C17_Witness ==
    /\ SweepOf(1).pc = "done" /\ SweepOf(1).outcome = "swept"
    /\ SweepOf(2).pc = "done" /\ SweepOf(2).outcome = "swept"
    /\ \E p \in PostIds :
          /\ feed[p].isViral /\ feed[p].viralDetectedAt = 1
          /\ feed[p].upvoteCount >= VIRAL_UPVOTE_THRESHOLD
          /\ trail[p].notified = 1
    /\ voteReq = <<>>

(***************************************************************************)
(* C21: an investor's totalEarnings starts at 0 and no step of a payment   *)
(* request lowers it, whatever amount the request body carries.  (SpecSeq) *)
(***************************************************************************)
C21_EarningsNeverDecrease ==
    [][/\ \A i \in investors : \A j \in investors' :
              j.id = i.id => j.totalEarnings >= i.totalEarnings
       /\ \A j \in investors' :
              (\A i \in investors : i.id # j.id) => j.totalEarnings = 0]_vars

(***************************************************************************)
(* C22: revenue is distributed in the qualifying case only: a request      *)
(* that credited an investor is a regular (not a buyout) content payment   *)
(* on a post with a revenue share above 0 and all its investor slots       *)
(* taken; a buyout, a comment payment, a payment on a post with share 0    *)
(* or with a free slot credits nobody.  (Spec)                             *)
(***************************************************************************)
C22_NoDistributionOutsideCase ==
    \A r \in Requests :
        req[r].credited > 0
        => /\ req[r].kind = "pay"
           /\ ~req[r].isBuyout
           /\ post.investorRevenueShare > 0
           /\ Cardinality(investors) >= maxInvestorSlots

(***************************************************************************)
(* C23: PaymentRecords are append-only: every step leaves each row of      *)
(* payments in the table as it was, so a user who has paid stays paid.     *)
(* (SpecCleanup)                                                           *)
(***************************************************************************)
C23_PaymentsAppendOnly == [][payments \subseteq payments']_vars

\* C24: what decryptBuffer returns for what encryptBuffer produced under
\* the same key is the buffer that was encrypted; handed a ciphertext or an
\* auth tag that was altered, or another key, it throws and returns no
\* bytes.  The same holds of decryptContentKey and encryptContentKey.
Untampered ==
    IF envelope.mode = "buffer"
    THEN /\ envelope.handed.encrypted = envelope.sealed.encrypted
         /\ envelope.handed.authTag = envelope.sealed.authTag
         /\ envelope.handed.key = envelope.key
    ELSE /\ envelope.handed.encryptedKey = envelope.sealed.encryptedKey
         /\ envelope.handed.authTag = envelope.sealed.authTag

C24_EnvelopeRoundTrip ==
    envelope.pc = "opened"
        => IF Untampered
           THEN envelope.opened.ok /\ envelope.opened.bytes = envelope.buffer
           ELSE envelope.opened = Thrown

C24_Witness ==
    /\ envelope.pc = "opened"
    /\ envelope.mode = "buffer"
    /\ Len(envelope.buffer) > 0
    /\ envelope.handed.key # envelope.key
    /\ envelope.handed.authTag = envelope.sealed.authTag
    /\ envelope.opened = Thrown

(***************************************************************************)
(* C25: whenever no payment request is in flight, a user holds an          *)
(* InvestorPosition on the post if and only if that user holds a 'content' *)
(* PaymentRecord with isBuyout = true on it.                               *)
(* Fails (Spec, SpecSeq): the handler inserts the PaymentRecord with the   *)
(* isBuyout of the request before it counts the payments and looks at the  *)
(* slots; a buyout that then finds the pool full, or that fails before the *)
(* position insert, leaves the PaymentRecord without a position.           *)
(***************************************************************************)
HoldsBuyoutRecord(userId) ==
    \E p \in RecordsOf(userId, "content") : p.isBuyout

C25_PositionIffBuyoutRecord ==
    Quiescent => \A u \in Users : HoldsPosition(u) <=> HoldsBuyoutRecord(u)

(***************************************************************************)
(* C26: a payment request that failed after its PaymentRecord was inserted *)
(* and was then sent again until it was answered with success leaves the   *)
(* ledger an uninterrupted execution of the request leaves: the            *)
(* PaymentRecord with its PlatformFeeRecord and, for a buyout, the         *)
(* InvestorPosition.                                                       *)
(* Fails (SpecSeq): the retry finds the PaymentRecord of the failed        *)
(* attempt, is answered alreadyPaid and writes nothing; the fee record and *)
(* the position of the failed attempt are never written.                   *)
(***************************************************************************)
Succeeded(r) == req[r].outcome \in {"paid", "alreadyPaid"}

FailedPartWay(r) ==
    /\ Done(r)
    /\ req[r].outcome = "ioError"
    /\ PaymentsBy(r) # {}

C26_RetryCompletesLedger ==
    \A r1, r2 \in Requests :
        (Resubmitted(r1, r2) /\ FailedPartWay(r1) /\ Succeeded(r2))
        => /\ FeesBy(r1) \cup FeesBy(r2) # {}
           /\ (\E p \in PaymentsBy(r1) :
                   p.paymentType = "content" /\ p.isBuyout)
              => HoldsPosition(req[r1].userId)

(***************************************************************************)
(* C27: whenever no vote request is in flight and none was answered with   *)
(* an error, each post's upvoteCount is the number of stored 'up' votes of *)
(* the post and its downvoteCount the number of stored 'down' votes; so    *)
(* one user alone cannot raise upvoteCount above 1.                        *)
(* Fails (SpecVotes): a user who sends the vote type they already hold     *)
(* raises the counter again while their one vote row stays: the increment  *)
(* of the new type replaces the decrement of the old type in the updates   *)
(* object.                                                                 *)
(***************************************************************************)
StoredVotes(postId, voteType) ==
    {w \in votes : w.postId = postId /\ w.voteType = voteType}

VotesSettled ==
    \A v \in VoteRequests :
        VoteOf(v).pc \in {"idle", "done"} /\ VoteOf(v).outcome # "error"

C27_CountersMatchVotes ==
    VotesSettled
        => \A p \in PostIds :
              /\ feed[p].upvoteCount = Cardinality(StoredVotes(p, "up"))
              /\ feed[p].downvoteCount = Cardinality(StoredVotes(p, "down"))

(***************************************************************************)
(* C28: when a run of the worker ends, every post of its snapshot that was *)
(* not viral and had upvoteCount >= VIRAL_UPVOTE_THRESHOLD, other than a   *)
(* post whose marking failed, is marked viral and notified.                *)
(* Fails (SpecViral): the try/catch is around the loop, so a markPostViral *)
(* that throws ends the run and the posts after it in the snapshot are not *)
(* evaluated.                                                              *)
(***************************************************************************)
SweepEnds(s) ==
    /\ SweepOf(s).pc = "mark"
    /\ sweep'[s].pc = "done"

C28_FailureSparesTheOthers ==
    [][\A s \in SweepRuns :
          SweepEnds(s)
          => \A p \in PostIds :
                (p # SweepOf(s).next /\ promotes(SweepOf(s).posts[p]))
                => feed'[p].isViral /\ trail'[p].notified > 0]_vars

(***************************************************************************)
(* C29: while the worker keeps running, a post whose upvoteCount is from   *)
(* some time on at least VIRAL_UPVOTE_THRESHOLD is eventually marked       *)
(* viral, even if markPostViral fails for another post on every run.       *)
(* Fails (SpecWorker): the post whose marking fails is met first in every  *)
(* run and the failure ends the run; the posts after it are never reached. *)
(***************************************************************************)
C29_EventuallyViral ==
    \A p \in PostIds \ {Stuck} :
        <>[](feed[p].upvoteCount >= VIRAL_UPVOTE_THRESHOLD)
            => <>(feed[p].isViral)

(***************************************************************************)
(* C30: at the moment markPostViral writes a post, the post is not viral   *)
(* and its upvoteCount is at least VIRAL_UPVOTE_THRESHOLD, also when vote  *)
(* requests run while the worker does.                                     *)
(* Fails (SpecViral): the worker tests the rows it read at the start of    *)
(* the run; a voter who switches from up to down after the read brings the *)
(* post below the threshold before it is marked.                           *)
(***************************************************************************)
Marked(p) == trail'[p].marked > trail[p].marked

C30_MarkedOnlyWhenDue ==
    [][\A p \in PostIds :
          Marked(p)
          => /\ ~feed[p].isViral
             /\ feed[p].upvoteCount >= VIRAL_UPVOTE_THRESHOLD]_vars

(***************************************************************************)
(* C31: viralDetectedAt is written at most once for a post and at most one *)
(* viralNotification is broadcast for it, also when runs of the worker     *)
(* overlap.                                                                *)
(* Fails (SpecOverlap): two runs that read the posts before either has     *)
(* marked both find the post not viral; markPostViral has no condition on  *)
(* isViral, so the second run writes viralDetectedAt again and broadcasts  *)
(* a second notification.                                                  *)
(***************************************************************************)
C31_MarkedAndNotifiedOnce ==
    \A p \in PostIds : trail[p].marked <= 1 /\ trail[p].notified <= 1

(***************************************************************************)
(* C32: the viewCount values returned (and broadcast) to view requests of  *)
(* the post are pairwise distinct: each is the value its own increment     *)
(* produced.                                                               *)
(* Fails (SpecViews): the handler increments and then reads the post       *)
(* again; two requests that both increment before either reads again are   *)
(* both answered with the later value.                                     *)
(***************************************************************************)
AnsweredViews == {v \in ViewRequests : ViewOf(v).outcome = "counted"}

C32_ReturnedCountsDistinct ==
    \A v, w \in AnsweredViews :
        v # w => ViewOf(v).viewCount # ViewOf(w).viewCount

(***************************************************************************)
(* C33: whenever no payment request is in flight, all InvestorPositions of *)
(* the post have the same totalEarnings, however qualifying payments       *)
(* interleave; here for the runs in which no statement failed.             *)
(* Fails (Spec): a request reads the investors' rows, another request      *)
(* credits one of them, and the first then writes back its own sum for     *)
(* that row: one credit of one investor is lost, the other investor has    *)
(* both.                                                                   *)
(***************************************************************************)
NoneFailed == \A r \in Requests : req[r].outcome # "ioError"

C33_EqualEarnings ==
    (Quiescent /\ NoneFailed)
        => \A i, j \in investors : i.totalEarnings = j.totalEarnings

(***************************************************************************)
(* C34: a media request of the creator of a post that is not free never    *)
(* looks at the payments (the creator holds no PaymentRecord) and is       *)
(* answered with the media as uploaded whenever the stored media decrypts, *)
(* with the blurred thumbnail otherwise.  (SpecMedia)                      *)
(***************************************************************************)
C34_CreatorServedUnpaid ==
    (MediaDone /\ ~post.isFree /\ mediaReq.viewer = CreatorId)
    => /\ ~mediaReq.checked
       /\ RecordsOf(CreatorId, "content") = {}
       /\ IF Decrypted(vault).ok
          THEN mediaReq.outcome = "media" /\ mediaReq.bytes = vault.buffer
          ELSE mediaReq.outcome = "thumbnail"

\* the creator got the uploaded bytes of a post nobody has paid for
C34_Witness ==
    /\ MediaDone /\ ~post.isFree
    /\ mediaReq.viewer = CreatorId
    /\ payments = {}
    /\ mediaReq.outcome = "media"
    /\ Len(mediaReq.bytes) > 0

C36_LockedCommentsGated ==
    post.commentsLocked
    => \A c \in comments :
          \/ c.userId = CreatorId
          \/ RecordsOf(c.userId, "content") # {}
          \/ RecordsOf(c.userId, "comment") # {}

(***************************************************************************)
(* C37: the amount of every 'content' PaymentRecord is the applicable      *)
(* price of the post: buyoutPrice for a buyout (its row exists only when   *)
(* the slot check found a free slot), the base price otherwise.            *)
(* Fails (SpecSeq): the handler computes actualPrice and logs it, then     *)
(* stores the amount of the request body and computes the revenue share    *)
(* from it.                                                                *)
(***************************************************************************)
ApplicablePrice(p) == IF p.isBuyout THEN post.buyoutPrice ELSE post.price

C37_StoredAmountIsPrice ==
    \A p \in payments :
        p.paymentType = "content" => p.amount = ApplicablePrice(p)

UploadedParts(v) ==
    encryptBuffer(v.buffer, Fill(KEY_LENGTH, v.keyByte), Fill(IV_LENGTH, 0))

FramingRecovered(v) ==
    LET encryptedBuffer == Disk(v).file.bytes
        encryptionResult == UploadedParts(v)
    IN  /\ Len(encryptedBuffer) = IV_LENGTH + Len(v.buffer) + AUTH_TAG_LENGTH
        /\ fileIv(encryptedBuffer) = encryptionResult.iv
        /\ fileEncryptedData(encryptedBuffer) = encryptionResult.encrypted
        /\ fileAuthTag(encryptedBuffer) = encryptionResult.authTag
        /\ Len(encryptionResult.encrypted) = Len(v.buffer)

C39_FramingRoundTrip == vault.damage = "none" => FramingRecovered(vault)

\* an upload of no bytes was stored untouched, split and served
C39_Witness ==
    /\ MediaDone /\ mediaReq.outcome = "media"
    /\ vault.damage = "none" /\ vault.buffer = <<>>
    /\ fileEncryptedData(Disk(vault).file.bytes) = <<>>
    /\ Len(fileAuthTag(Disk(vault).file.bytes)) = AUTH_TAG_LENGTH

====================================================================
